---- MODULE Spec2Model ----
(***************************************************************************)
(* A model of parts of the storage-access layer:                           *)
(*   - services/sled/dir_pager.rs    : DirPager, the sled listing pager     *)
(*   - services/sled/backend.rs      : the sled key-value adapter           *)
(*   - services/webhdfs/backend.rs   : WebhdfsBackend and its requests      *)
(*   - operator.rs                   : Operator, OperatorBuilder and        *)
(*                                     BatchOperator                        *)
(*   - layers/metrics.rs             : MetricsAccessor and MetricReader     *)
(* Each part has its own next-state relation and specification; the        *)
(* variables of the other parts stay at their initial values.              *)
(***************************************************************************)
EXTENDS Integers, Sequences, FiniteSets, TLC

(***************************************************************************)
(* Bounds of the model.                                                    *)
(***************************************************************************)
\* keys of one sled tree are 1..MaxKey, iterated in ascending order
MaxKey == 3
\* page sizes handed to DirPager::new are 0..MaxPageSize
MaxPageSize == 2
\* next_page is called at most MaxPagerCalls times on the pager
MaxPagerCalls == 4

\* lengths of the values stored in the tree
ValueLens == {0, 5}

\* object paths are sequences of at most MaxDepth names below the root
MaxDepth == 3
\* the namespace holds at most MaxEntries objects besides the root
MaxEntries == 3
\* the names a path segment is drawn from
Names == {"a", "b"}

\* at most MaxCalls calls are made through the metrics layer
MaxCalls == 1
\* a stream hands out at most MaxBytes bytes
MaxBytes == 2
\* the sled adapter is called at most MaxKvCalls times
MaxKvCalls == 3
\* remote objects are at most MaxObjLen bytes long
MaxObjLen == 2
\* u64 is modelled as an unsigned integer of WordBits bits
WordBits == 3
\* the calls of the sled adapter that an accessor's run makes
MaxAccCalls == 1
\* OperatorBuilder::layer is called at most MaxLayers times on a builder
MaxLayers == 2
\* at most MaxArcs accessor chains are built
MaxArcs == 2
\* at most MaxHandles Operator, Object and BatchOperator values are held
MaxHandles == 2
\* at most MaxStats calls of stat are made on the backend
MaxStats == 3
\* the tasks that call through one metrics layer at the same time
Tasks == {"t1", "t2"}

VARIABLES
    \* ---- services/sled/dir_pager.rs
    db_tree,        \* the sled tree: a function from its keys to value lengths
    pager,          \* "none" before DirPager::new, then "live"
    current_page,   \* DirPager.current_page
    page_size,      \* DirPager.page_size
    result,         \* what the latest next_page returned
    exhausted,      \* history: next_page has returned None on this pager
    drain,          \* history: the keys the pager yielded, while the tree
                    \* was left alone and its iterator gave no error
    \* ---- operator.rs, BatchOperator
    fs,             \* the namespace behind the accessor: its files and its dirs
    calls,          \* the accessor calls made so far, oldest first
    api,            \* the BatchOperator method that was called, or "none"
    path,           \* its path argument
    pc,             \* where that method, or the consumer of its lister, stands
    obs,            \* the ObjectLister's walker
    item,           \* the entry the lister yielded last
    yielded,        \* every entry the lister yielded, oldest first
    ret,            \* what the method returned: "none" yet, "ok" or "err"
    \* ---- layers/metrics.rs
    requests_total,             \* opendal_requests_total, by operation label
    requests_duration_seconds,  \* the number of samples of each histogram
    bytes_total,                \* opendal_bytes_total, by operation label
    errors_total,               \* opendal_errors_total, by operation and kind
    call,           \* the call through the layer: method, position, error kind
    rd,             \* the MetricReader of that call
    n_calls,        \* the number of calls made through the layer
    tasks,          \* the calls that run concurrently through one layer
    \* ---- services/sled/backend.rs, Adapter
    db,             \* Adapter.db: the trees of the sled database, by name
    kv_last,        \* the latest call of the adapter and what it returned
    kv_model,       \* history: the value each path was last set to, if any
    kv_calls,       \* the number of calls of the adapter made so far
    \* ---- services/webhdfs/backend.rs, WebhdfsBackend
    hdfs,           \* the remote namespace: what each inode is, and its length
    root_checker,   \* WebhdfsBackend.root_checker: the OnceCell is set
    http,           \* the requests the latest call sent and their responses
    wh_last,        \* the latest call of the backend and what it returned
    \* ---- services/sled/backend.rs, SledBackend = kv::Backend<Adapter>
    sled_last,      \* the latest call of the accessor and what it returned
    \* ---- operator.rs: OperatorBuilder and Operator
    ob,             \* OperatorBuilder.accessor: the chain, outermost layer first
    ob_layers,      \* history: the layers handed to OperatorBuilder::layer
    arcs,           \* the FusedAccessor allocations: an immutable chain each
    handles,        \* the Operator, Object and BatchOperator values held
    check_last,     \* the latest Operator::check: what it met and returned
    \* ---- services/webhdfs/backend.rs: stat calls that run concurrently
    stat_at,        \* each task's stat call: its position, path and result
    permit,         \* the task that holds the permit of root_checker, or "free"
    inits,          \* history: the root checks that have succeeded
    stats           \* the number of stat calls made so far

pagerVars == <<db_tree, pager, current_page, page_size, result, exhausted,
               drain>>

batchVars == <<fs, calls, api, path, pc, obs, item, yielded, ret>>

metricsVars == <<requests_total, requests_duration_seconds, bytes_total,
                 errors_total, call, rd, n_calls>>

tasksVars == <<tasks>>

kvVars == <<db, kv_last, kv_model, kv_calls>>

whVars == <<hdfs, root_checker, http, wh_last>>

accVars == <<sled_last>>

opVars == <<ob, ob_layers, arcs, handles, check_last>>

statVars == <<stat_at, permit, inits, stats>>

vars == <<db_tree, pager, current_page, page_size, result, exhausted, drain,
          fs, calls, api, path, pc, obs, item, yielded, ret,
          requests_total, requests_duration_seconds, bytes_total,
          errors_total, call, rd, n_calls, tasks,
          db, kv_last, kv_model, kv_calls,
          hdfs, root_checker, http, wh_last, sled_last,
          ob, ob_layers, arcs, handles, check_last,
          stat_at, permit, inits, stats>>

(***************************************************************************)
(* services/sled/dir_pager.rs                                              *)
(***************************************************************************)
Keys == 1..MaxKey

\* Option<Vec<ObjectEntry>>: None, or Some(page)
None == [some |-> FALSE, page |-> <<>>]
Some(objects) == [some |-> TRUE, page |-> objects]

\* the smallest element of a non-empty set of keys
MinKey(S) == CHOOSE k \in S : \A j \in S : k <= j

\* sled::Tree::iter(): the keys of the tree in ascending order
RECURSIVE TreeIter(_)
TreeIter(S) ==
    IF S = {} THEN <<>>
    ELSE <<MinKey(S)>> \o TreeIter(S \ {MinKey(S)})

\* Iterator::skip(n)
Skip(s, n) == IF n >= Len(s) THEN <<>> ELSE SubSeq(s, n + 1, Len(s))

\* ObjectEntry::new(file_name, ObjectMetadata::new(FILE).with_content_length(v.len()))
ObjectEntry(k, len) == [path |-> k, mode |-> "FILE", content_length |-> len]

\* filter_map over the iterator items: Ok((k, v)) becomes an entry, Err(_) is
\* left out; bad is the set of keys whose item the iterator reports as Err
RECURSIVE FilterMap(_, _, _)
FilterMap(s, tree, bad) ==
    IF s = <<>> THEN <<>>
    ELSE (IF Head(s) \in bad THEN <<>> ELSE <<ObjectEntry(Head(s), tree[Head(s)])>>)
         \o FilterMap(Tail(s), tree, bad)

\* the objects collected by one next_page call
Objects(tree, page, size, bad) ==
    FilterMap(Skip(TreeIter(DOMAIN tree), page * size), tree, bad)

PageResultAlwaysSome(objects) == Some(objects)

\* Ok((!objects.is_empty()).then_some(objects))
PageResult(objects) == IF objects # <<>> THEN Some(objects) ELSE None

\* the paths of the entries of a page
PathsOf(objects) == [i \in DOMAIN objects |-> objects[i].path]

\* the keys yielded so far by a drain of a tree that no one modifies
Drained(keys) == [steady |-> TRUE, keys |-> keys]

\* the tree was modified, or its iterator gave an error, or no pager is there
Unsteady == [steady |-> FALSE, keys |-> << >>]

\* DirPager::new(tree, page_size)
DirPagerNew(size) ==
    /\ pager = "none"
    /\ pager' = "live"
    /\ current_page' = 0
    /\ page_size' = size
    /\ drain' = Drained(<< >>)
    /\ UNCHANGED <<db_tree, result, exhausted>>
    /\ UNCHANGED <<batchVars, metricsVars, tasksVars, kvVars, whVars, accVars, opVars, statVars>>

\* BlockingObjectPage::next_page (the async next_page calls it)
NextPage(bad) ==
    /\ pager = "live"
    /\ current_page < MaxPagerCalls
    /\ LET objects == Objects(db_tree, current_page, page_size, bad)
       IN /\ result' = PageResult(objects)
          /\ exhausted' = (exhausted \/ ~result'.some)
          /\ drain' = IF drain.steady /\ bad = {}
                      THEN Drained(drain.keys \o PathsOf(objects))
                      ELSE Unsteady
    /\ current_page' = current_page + 1
    /\ UNCHANGED <<db_tree, pager, page_size>>
    /\ UNCHANGED <<batchVars, metricsVars, tasksVars, kvVars, whVars, accVars, opVars, statVars>>

\* ObjectPage::next_page, the async form:
\* <Self as BlockingObjectPage>::next_page(self)
NextPageAsync(bad) == NextPage(bad)

\* tree.insert(basename, value) on the tree the pager iterates
TreeInsert(k, len) ==
    /\ db_tree' = [j \in (DOMAIN db_tree) \cup {k} |->
                     IF j = k THEN len ELSE db_tree[j]]
    /\ db_tree' # db_tree
    /\ drain' = Unsteady
    /\ UNCHANGED <<pager, current_page, page_size, result, exhausted>>
    /\ UNCHANGED <<batchVars, metricsVars, tasksVars, kvVars, whVars, accVars, opVars, statVars>>

\* tree.remove(basename) on the tree the pager iterates
TreeRemove(k) ==
    /\ k \in DOMAIN db_tree
    /\ db_tree' = [j \in (DOMAIN db_tree) \ {k} |-> db_tree[j]]
    /\ drain' = Unsteady
    /\ UNCHANGED <<pager, current_page, page_size, result, exhausted>>
    /\ UNCHANGED <<batchVars, metricsVars, tasksVars, kvVars, whVars, accVars, opVars, statVars>>

(***************************************************************************)
(* operator.rs: BatchOperator                                              *)
(***************************************************************************)
\* a path is the sequence of its segments; the root "/" is the empty sequence
RECURSIVE PathsUpTo(_)
PathsUpTo(n) ==
    IF n = 0 THEN {<<>>}
    ELSE PathsUpTo(n - 1) \cup
         {Append(p, x) : p \in PathsUpTo(n - 1), x \in Names}

Paths == PathsUpTo(MaxDepth)

Parent(p) == SubSeq(p, 1, Len(p) - 1)

\* q lies beneath p
Beneath(p, q) == Len(p) < Len(q) /\ SubSeq(q, 1, Len(p)) = p

Exists(f, p) == p \in f.files \/ p \in f.dirs

\* ObjectMode of the object at p
ModeOf(f, p) == IF p \in f.dirs THEN "DIR" ELSE "FILE"

Entry(f, p) == [path |-> p, mode |-> ModeOf(f, p)]

\* the entries a list of directory p returns
Children(f, p) ==
    {Entry(f, q) : q \in {c \in f.files \cup f.dirs : Len(c) > 0 /\ Parent(c) = p}}

\* one accessor call: the operation, its path, whether it succeeded, and the
\* mode a successful stat reported
Call(op, p, ok, rp) == [op |-> op, path |-> p, ok |-> ok, rp |-> rp]

NoEntry == [path |-> <<>>, mode |-> "none"]

NoWalker == [kind |-> "none", dirs |-> <<>>, listings |-> <<>>]

\* TopDownWalker::new(acc, path): the root is the one directory to visit
TopDownWalker(p) == [kind |-> "top_down", dirs |-> <<p>>, listings |-> <<>>]

\* BottomUpWalker::new(acc, path): the root is on the stack, not yet listed
BottomUpWalker(p) == [kind |-> "bottom_up", dirs |-> <<p>>, listings |-> <<>>]

walk_top_down_bottom_up(p) == BottomUpWalker(p)

\* BatchOperator::walk_top_down
walk_top_down(p) == TopDownWalker(p)

\* BatchOperator::walk: the top-down walk
walk(p) == walk_top_down(p)

walk_bottom_up_top_down(p) == TopDownWalker(p)

\* BatchOperator::walk_bottom_up
walk_bottom_up(p) == BottomUpWalker(p)

IsLeafNever(meta) == FALSE

\* remove_all: meta.mode() != ObjectMode::DIR
IsLeaf(meta) == meta.mode # "DIR"

AfterDeleteGoOn(ok) == "next"

\* try_for_each: a failed delete ends the loop, a successful one polls the
\* lister again
AfterDelete(ok) == IF ok THEN "next" ELSE "done"

\* Accessor::create on the namespace: a file or a directory in an existing
\* directory
Create(p, mode) ==
    /\ api = "none"
    /\ Len(p) > 0
    /\ ~Exists(fs, p)
    /\ Parent(p) \in fs.dirs
    /\ Cardinality(fs.files \cup fs.dirs) <= MaxEntries
    /\ fs' = IF mode = "DIR"
             THEN [fs EXCEPT !.dirs = @ \cup {p}]
             ELSE [fs EXCEPT !.files = @ \cup {p}]
    /\ UNCHANGED <<calls, api, path, pc, obs, item, yielded, ret>>
    /\ UNCHANGED <<pagerVars, metricsVars, tasksVars, kvVars, whVars, accVars, opVars, statVars>>

\* a delete succeeds only on an object that holds nothing
DeleteOk(f, p, ok) == ok /\ Children(f, p) = {}

Deleted(f, p) == [files |-> f.files \ {p}, dirs |-> f.dirs \ {p}]

\* remove_all up to its first delete or walk: the stat of the path, its `?`,
\* and the test of the mode
RemoveAll(p, stat_ok) ==
    /\ api = "none"
    /\ api' = "remove_all"
    /\ path' = p
    /\ LET ok == stat_ok /\ Exists(fs, p)
           meta == Entry(fs, p)
       IN /\ calls' = Append(calls, Call("stat", p, ok, IF ok THEN meta.mode ELSE "none"))
          /\ IF ~ok
             THEN /\ pc' = "done"
                  /\ ret' = "err"
                  /\ obs' = obs
             ELSE IF IsLeaf(meta)
             THEN /\ pc' = "delete_parent"
                  /\ ret' = ret
                  /\ obs' = obs
             ELSE /\ pc' = "next"
                  /\ ret' = ret
                  /\ obs' = walk_bottom_up(p)
    /\ UNCHANGED <<fs, item, yielded>>
    /\ UNCHANGED <<pagerVars, metricsVars, tasksVars, kvVars, whVars, accVars, opVars, statVars>>

\* remove_all on a leaf: return parent.delete().await
RemoveAllDeleteParent(ok) ==
    /\ api = "remove_all"
    /\ pc = "delete_parent"
    /\ LET done == DeleteOk(fs, path, ok)
       IN /\ calls' = Append(calls, Call("delete", path, done, "none"))
          /\ fs' = IF done THEN Deleted(fs, path) ELSE fs
          /\ ret' = IF done THEN "ok" ELSE "err"
    /\ pc' = "done"
    /\ UNCHANGED <<api, path, obs, item, yielded>>
    /\ UNCHANGED <<pagerVars, metricsVars, tasksVars, kvVars, whVars, accVars, opVars, statVars>>

\* remove_all in a directory: v.delete().await on the entry the lister gave
RemoveAllDelete(ok) ==
    /\ api = "remove_all"
    /\ pc = "delete"
    /\ LET done == DeleteOk(fs, item.path, ok)
       IN /\ calls' = Append(calls, Call("delete", item.path, done, "none"))
          /\ fs' = IF done THEN Deleted(fs, item.path) ELSE fs
          /\ pc' = AfterDelete(done)
          /\ ret' = IF AfterDelete(done) = "done" THEN "err" ELSE ret
    /\ UNCHANGED <<api, path, obs, item, yielded>>
    /\ UNCHANGED <<pagerVars, metricsVars, tasksVars, kvVars, whVars, accVars, opVars, statVars>>

\* BatchOperator::walk, walk_top_down, walk_bottom_up: the lister is built,
\* nothing is listed yet
Walk(p) ==
    /\ api = "none"
    /\ api' = "walk"
    /\ path' = p
    /\ pc' = "next"
    /\ obs' = walk(p)
    /\ UNCHANGED <<fs, calls, item, yielded, ret>>
    /\ UNCHANGED <<pagerVars, metricsVars, tasksVars, kvVars, whVars, accVars, opVars, statVars>>

WalkTopDown(p) ==
    /\ api = "none"
    /\ api' = "walk_top_down"
    /\ path' = p
    /\ pc' = "next"
    /\ obs' = walk_top_down(p)
    /\ UNCHANGED <<fs, calls, item, yielded, ret>>
    /\ UNCHANGED <<pagerVars, metricsVars, tasksVars, kvVars, whVars, accVars, opVars, statVars>>

WalkBottomUp(p) ==
    /\ api = "none"
    /\ api' = "walk_bottom_up"
    /\ path' = p
    /\ pc' = "next"
    /\ obs' = walk_bottom_up(p)
    /\ UNCHANGED <<fs, calls, item, yielded, ret>>
    /\ UNCHANGED <<pagerVars, metricsVars, tasksVars, kvVars, whVars, accVars, opVars, statVars>>

\* the lister hands an entry to its consumer: remove_all deletes it, the
\* consumer of a walk asks for the next one
Yield(e) ==
    /\ item' = e
    /\ yielded' = Append(yielded, e)
    /\ pc' = IF api = "remove_all" THEN "delete" ELSE "next"
    /\ ret' = ret

\* the lister hands an error to its consumer, which stops there
YieldErr ==
    /\ pc' = "done"
    /\ ret' = "err"
    /\ UNCHANGED <<item, yielded>>

\* the lister is at its end
YieldEnd ==
    /\ pc' = "done"
    /\ ret' = "ok"
    /\ UNCHANGED <<item, yielded>>

Last(s) == s[Len(s)]
Front(s) == SubSeq(s, 1, Len(s) - 1)

\* one step of the top-down walker: an entry of the directory being listed
\* is taken (a file is yielded, a directory is queued), or the next queued
\* directory is listed and yielded
TopDownStep(list_ok) ==
    /\ obs.kind = "top_down"
    /\ IF obs.listings # <<>> /\ obs.listings[1] # {}
       THEN \E e \in obs.listings[1] :
              /\ calls' = calls
              /\ IF e.mode = "DIR"
                 THEN /\ obs' = [obs EXCEPT !.listings = <<@[1] \ {e}>>,
                                            !.dirs = Append(@, e.path)]
                      /\ UNCHANGED <<item, yielded, pc, ret>>
                 ELSE /\ obs' = [obs EXCEPT !.listings = <<@[1] \ {e}>>]
                      /\ Yield(e)
       ELSE IF obs.dirs = <<>>
       THEN /\ obs' = [obs EXCEPT !.listings = <<>>]
            /\ calls' = calls
            /\ YieldEnd
       ELSE LET d == Last(obs.dirs)
            IN /\ calls' = Append(calls, Call("list", d, list_ok, "none"))
               /\ IF list_ok
                  THEN /\ obs' = [obs EXCEPT !.dirs = Front(@),
                                             !.listings = <<Children(fs, d)>>]
                       /\ Yield([path |-> d, mode |-> "DIR"])
                  ELSE /\ obs' = [obs EXCEPT !.dirs = Front(@),
                                             !.listings = <<>>]
                       /\ YieldErr

\* one step of the bottom-up walker: the directory on top of the stack is
\* listed, or an entry of its listing is taken (a file is yielded, a
\* directory is pushed), or, its listing used up, it is popped and yielded
BottomUpStep(list_ok) ==
    /\ obs.kind = "bottom_up"
    /\ IF obs.dirs = <<>>
       THEN /\ obs' = obs
            /\ calls' = calls
            /\ YieldEnd
       ELSE IF Len(obs.listings) < Len(obs.dirs)
       THEN LET d == Last(obs.dirs)
            IN /\ calls' = Append(calls, Call("list", d, list_ok, "none"))
               /\ IF list_ok
                  THEN /\ obs' = [obs EXCEPT
                                    !.listings = Append(@, Children(fs, d))]
                       /\ UNCHANGED <<item, yielded, pc, ret>>
                  ELSE /\ obs' = obs
                       /\ YieldErr
       ELSE IF Last(obs.listings) = {}
       THEN /\ obs' = [obs EXCEPT !.dirs = Front(@), !.listings = Front(@)]
            /\ calls' = calls
            /\ Yield([path |-> Last(obs.dirs), mode |-> "DIR"])
       ELSE \E e \in Last(obs.listings) :
              /\ calls' = calls
              /\ IF e.mode = "DIR"
                 THEN /\ obs' = [obs EXCEPT
                                   !.listings = Append(Front(@), Last(@) \ {e}),
                                   !.dirs = Append(@, e.path)]
                      /\ UNCHANGED <<item, yielded, pc, ret>>
                 ELSE /\ obs' = [obs EXCEPT
                                   !.listings = Append(Front(@), Last(@) \ {e})]
                      /\ Yield(e)

\* ObjectLister::poll_next: the consumer polls the walker
ListerNext(list_ok) ==
    /\ pc = "next"
    /\ \/ TopDownStep(list_ok)
       \/ BottomUpStep(list_ok)
    /\ UNCHANGED <<fs, api, path>>
    /\ UNCHANGED <<pagerVars, metricsVars, tasksVars, kvVars, whVars, accVars, opVars, statVars>>

BatchInit ==
    /\ fs = [files |-> {}, dirs |-> {<<>>}]
    /\ calls = <<>>
    /\ api = "none"
    /\ path = <<>>
    /\ pc = "idle"
    /\ obs = NoWalker
    /\ item = NoEntry
    /\ yielded = <<>>
    /\ ret = "none"

BatchNext ==
    \/ \E p \in Paths, mode \in {"FILE", "DIR"} : Create(p, mode)
    \/ \E p \in Paths, stat_ok \in BOOLEAN : RemoveAll(p, stat_ok)
    \/ \E ok \in BOOLEAN : RemoveAllDeleteParent(ok)
    \/ \E ok \in BOOLEAN : RemoveAllDelete(ok)
    \/ \E p \in Paths : Walk(p)
    \/ \E p \in Paths : WalkTopDown(p)
    \/ \E p \in Paths : WalkBottomUp(p)
    \/ \E list_ok \in BOOLEAN : ListerNext(list_ok)

(***************************************************************************)
(* layers/metrics.rs: MetricsAccessor and MetricReader                     *)
(***************************************************************************)
\* the labels of Operation, one per method of the accessor
Ops == {"metadata", "create", "read", "write",
        "stat", "delete", "list", "presign",
        "create_multipart", "write_multipart", "complete_multipart", "abort_multipart",
        "blocking_create", "blocking_read", "blocking_write", "blocking_stat",
        "blocking_delete", "blocking_list"}

\* the methods that are async fn: their future can be dropped while pending
AsyncOps == {"create", "read", "write", "stat", "delete", "list",
             "create_multipart", "write_multipart", "complete_multipart",
             "abort_multipart"}

\* the methods that return a reader, and those that are handed one
ReadOps == {"read", "blocking_read"}
WriteOps == {"write", "write_multipart", "blocking_write"}

\* the error kinds an inner accessor returns
ErrorKinds == {"ObjectNotFound", "Unexpected"}

\* MetricsHandler::new: the operation label each field is registered with
RegisteredLabel ==
    [requests_total_metadata |-> "metadata",
     requests_total_create |-> "create",
     requests_total_read |-> "read",
     requests_total_write |-> "write",
     requests_total_stat |-> "stat",
     requests_total_delete |-> "delete",
     requests_total_list |-> "list",
     requests_total_presign |-> "presign",
     requests_total_create_multipart |-> "create_multipart",
     requests_total_write_multipart |-> "write_multipart",
     requests_total_complete_multipartt |-> "complete_multipart",
     requests_total_abort_multipart |-> "abort_multipart",
     requests_total_blocking_create |-> "blocking_create",
     requests_total_blocking_read |-> "blocking_read",
     requests_total_blocking_write |-> "blocking_write",
     requests_total_blocking_stat |-> "blocking_stat",
     requests_total_blocking_delete |-> "blocking_delete",
     requests_total_blocking_list |-> "blocking_list",
     requests_duration_seconds_metadata |-> "metadata",
     requests_duration_seconds_create |-> "create",
     requests_duration_seconds_read |-> "read",
     requests_duration_seconds_write |-> "write",
     requests_duration_seconds_stat |-> "stat",
     requests_duration_seconds_delete |-> "delete",
     requests_duration_seconds_list |-> "list",
     requests_duration_seconds_presign |-> "presign",
     requests_duration_seconds_create_multipart |-> "create_multipart",
     requests_duration_seconds_write_multipart |-> "write_multipart",
     requests_duration_seconds_complete_multipart |-> "complete_multipart",
     requests_duration_seconds_abort_multipart |-> "abort_multipart",
     requests_duration_seconds_blocking_create |-> "blocking_create",
     requests_duration_seconds_blocking_read |-> "blocking_read",
     requests_duration_seconds_blocking_write |-> "blocking_write",
     requests_duration_seconds_blocking_stat |-> "blocking_stat",
     requests_duration_seconds_blocking_delete |-> "blocking_delete",
     requests_duration_seconds_blocking_list |-> "blocking_list",
     bytes_total_read |-> "read",
     bytes_total_write |-> "write",
     bytes_total_write_multipart |-> "write_multipart",
     bytes_total_blocking_read |-> "blocking_read",
     bytes_total_blocking_write |-> "blocking_write"]

\* the counter each method increments on entry
RequestsTotalField ==
    [metadata |-> "requests_total_metadata",
     create |-> "requests_total_create",
     read |-> "requests_total_read",
     write |-> "requests_total_write",
     stat |-> "requests_total_stat",
     delete |-> "requests_total_delete",
     list |-> "requests_total_list",
     presign |-> "requests_total_presign",
     create_multipart |-> "requests_total_create_multipart",
     write_multipart |-> "requests_total_write_multipart",
     complete_multipart |-> "requests_total_complete_multipartt",
     abort_multipart |-> "requests_total_abort_multipart",
     blocking_create |-> "requests_total_blocking_create",
     blocking_read |-> "requests_total_blocking_read",
     blocking_write |-> "requests_total_blocking_write",
     blocking_stat |-> "requests_total_blocking_stat",
     blocking_delete |-> "requests_total_blocking_delete",
     blocking_list |-> "requests_total_blocking_list"]

\* the histogram each method records its duration in
DurationField ==
    [metadata |-> "requests_duration_seconds_metadata",
     create |-> "requests_duration_seconds_create",
     read |-> "requests_duration_seconds_read",
     write |-> "requests_duration_seconds_write",
     stat |-> "requests_duration_seconds_stat",
     delete |-> "requests_duration_seconds_delete",
     list |-> "requests_duration_seconds_list",
     presign |-> "requests_duration_seconds_presign",
     create_multipart |-> "requests_duration_seconds_create_multipart",
     write_multipart |-> "requests_duration_seconds_write_multipart",
     complete_multipart |-> "requests_duration_seconds_complete_multipart",
     abort_multipart |-> "requests_duration_seconds_abort_multipart",
     blocking_create |-> "requests_duration_seconds_blocking_create",
     blocking_read |-> "requests_duration_seconds_blocking_read",
     blocking_write |-> "requests_duration_seconds_blocking_write",
     blocking_stat |-> "requests_duration_seconds_blocking_stat",
     blocking_delete |-> "requests_duration_seconds_blocking_delete",
     blocking_list |-> "requests_duration_seconds_blocking_list"]

\* the byte counter each method hands to its MetricReader
BytesField ==
    [read |-> "bytes_total_read",
     write |-> "bytes_total_write",
     write_multipart |-> "bytes_total_write_multipart",
     blocking_read |-> "bytes_total_blocking_read",
     blocking_write |-> "bytes_total_blocking_write"]

RequestsCounterOfStat(m) ==
    IF m = "blocking_stat" THEN RegisteredLabel[RequestsTotalField["stat"]]
    ELSE RegisteredLabel[RequestsTotalField[m]]

\* the label of the request counter that method m increments
RequestsCounterOf(m) == RegisteredLabel[RequestsTotalField[m]]

\* the label of the histogram that method m records in
HistogramOf(m) == RegisteredLabel[DurationField[m]]

\* whether method m records a duration sample when the inner call returns:
\* metadata, presign, create and the blocking methods but blocking_read record
\* whatever the result; read and blocking_read leave it to the reader; the
\* other async methods record in inspect_ok only
RecordsOnReturn(m, ok) ==
    CASE m \in {"metadata", "presign", "create", "blocking_create",
                "blocking_write", "blocking_stat", "blocking_delete",
                "blocking_list"} -> TRUE
      [] m \in ReadOps -> FALSE
      [] OTHER -> ok

IncAbsolute(f, k, n) == [f EXCEPT ![k] = n]

\* Counter::increment(n), Histogram::record: one atomic update of the value
\* behind label k
Inc(f, k, n) == [f EXCEPT ![k] = @ + n]

IncrementErrorsUnexpected(f, op, kind) ==
    IF <<op, "Unexpected">> \in DOMAIN f
    THEN [f EXCEPT ![<<op, "Unexpected">>] = @ + 1]
    ELSE [k \in (DOMAIN f) \cup {<<op, "Unexpected">>} |->
            IF k = <<op, "Unexpected">> THEN 1 ELSE f[k]]

\* increment_errors_total(op, kind): the error counters are not registered in
\* advance, a counter comes into being with its first increment
IncrementErrors(f, op, kind) ==
    IF <<op, kind>> \in DOMAIN f
    THEN [f EXCEPT ![<<op, kind>>] = @ + 1]
    ELSE [k \in (DOMAIN f) \cup {<<op, kind>>} |->
            IF k = <<op, kind>> THEN 1 ELSE f[k]]

\* the value of an error counter, 0 when it was never incremented
ErrorsTotal(f, op, kind) == IF <<op, kind>> \in DOMAIN f THEN f[<<op, kind>>] ELSE 0

\* AccessorMetadata: what metadata() of an accessor reports
NoMetadata == [scheme |-> "none", root |-> "none", capabilities |-> {}]

\* Adapter::metadata of services/sled: Read | Write | Blocking
SledMetadata ==
    [scheme |-> "sled", root |-> "/",
     capabilities |-> {"Read", "Write", "Blocking"}]

WebhdfsMetadataNoList ==
    [scheme |-> "webhdfs", root |-> "/", capabilities |-> {"Read", "Write"}]

\* WebhdfsBackend::metadata: Read | Write | List
WebhdfsMetadata ==
    [scheme |-> "webhdfs", root |-> "/",
     capabilities |-> {"Read", "Write", "List"}]

\* what a call of an accessor returns: Ok or Err(kind); metadata() returns
\* the AccessorMetadata and cannot fail
Result(ok, kind, am) == [ok |-> ok, kind |-> kind, am |-> am]

NoResult == Result(FALSE, "none", NoMetadata)

\* the results the inner accessor can return to method m
InnerResults(m) ==
    IF m = "metadata"
    THEN {Result(TRUE, "none", am) : am \in {SledMetadata, WebhdfsMetadata}}
    ELSE {Result(TRUE, "none", NoMetadata)}
         \cup {Result(FALSE, kind, NoMetadata) : kind \in ErrorKinds}

OuterResultUnexpected(m, res) ==
    IF res.ok THEN res ELSE [res EXCEPT !.kind = "Unexpected"]

\* what method m of the layer returns for the inner result res: metadata
\* returns `result`, map_err and inspect_err hand the error on as it is, a
\* reader that comes with Ok is wrapped (rd)
OuterResult(m, res) == res

NoCall ==
    [op |-> "none", st |-> "idle", kind |-> "none",
     inner |-> NoResult, out |-> NoResult]

NoReader ==
    [st |-> "none", op |-> "none", bytes_counter |-> "none",
     requests_duration_seconds |-> "none", start |-> FALSE, bytes |-> 0,
     returned |-> 0, eof |-> FALSE, failed |-> FALSE,
     flushes |-> 0, added |-> 0, samples |-> 0]

\* MetricReader::new(inner, op, handle, bytes_counter, histogram, start)
MetricReaderNew(op, bytes_counter, histogram, start) ==
    [NoReader EXCEPT !.st = "alive", !.op = op,
                     !.bytes_counter = bytes_counter,
                     !.requests_duration_seconds = histogram,
                     !.start = start]

ReaderOfWithStart(m) ==
    MetricReaderNew(m, BytesField[m], DurationField[m], TRUE)

\* the reader of method m: read paths carry Some(start), write paths None
ReaderOf(m) ==
    MetricReaderNew(m, BytesField[m], DurationField[m], m \in ReadOps)

CountedRequested(buf, n) == buf

\* self.bytes += bytes as u64: n bytes came back for a buffer of buf bytes
CountedBytes(buf, n) == n

DroppedTwice(r) ==
    [r EXCEPT !.st = "dropped",
              !.flushes = @ + 2,
              !.added = @ + 2 * r.bytes,
              !.samples = @ + (IF r.start THEN 2 ELSE 0)]

\* Drop for MetricReader: the bytes go to the byte counter and, with
\* Some(start), one sample to the histogram
Dropped(r) ==
    [r EXCEPT !.st = "dropped",
              !.flushes = @ + 1,
              !.added = @ + r.bytes,
              !.samples = @ + (IF r.start THEN 1 ELSE 0)]

\* the reader after whatever holds it has gone
Gone(r) == IF r.st = "alive" THEN Dropped(r) ELSE r

\* the counters after reader r has become r2
FlushedBytes(bt, r, r2) ==
    IF r2.added = r.added THEN bt
    ELSE Inc(bt, RegisteredLabel[r.bytes_counter], r2.added - r.added)

FlushedDurations(h, r, r2) ==
    IF r2.samples = r.samples THEN h
    ELSE Inc(h, RegisteredLabel[r.requests_duration_seconds],
             r2.samples - r.samples)

\* the read methods MetricReader offers for the reader of method m:
\* output::Read, output::BlockingRead, AsyncRead, std::io::Read
ReadApis(m) ==
    CASE m = "read" -> {"poll_read", "poll_next"}
      [] m = "blocking_read" -> {"read", "next"}
      [] m = "blocking_write" -> {"read"}
      [] OTHER -> {"poll_read"}

\* a method of MetricsAccessor is entered: its request counter goes up and,
\* on a write path, the source is wrapped in a MetricReader
MetricsCall(m) ==
    /\ call.st # "pending"
    /\ rd.st # "alive"
    /\ n_calls < MaxCalls
    /\ n_calls' = n_calls + 1
    /\ requests_total' = Inc(requests_total, RequestsCounterOf(m), 1)
    /\ call' = [NoCall EXCEPT !.op = m, !.st = "pending"]
    /\ rd' = IF m \in WriteOps THEN ReaderOf(m) ELSE NoReader
    /\ UNCHANGED <<requests_duration_seconds, bytes_total, errors_total>>
    /\ UNCHANGED <<pagerVars, batchVars, tasksVars, kvVars, whVars, accVars, opVars, statVars>>

\* the inner call returns: the duration and the error counter are updated,
\* a read path wraps the reader it got, a write path's reader goes with the
\* inner call
MetricsReturn(res) ==
    /\ call.st = "pending"
    /\ res \in InnerResults(call.op)
    /\ LET m == call.op
           ok == res.ok
           kind == res.kind
           out == OuterResult(m, res)
           rd1 == Gone(rd)
       IN /\ rd' = IF m \in ReadOps /\ ok THEN ReaderOf(m) ELSE rd1
          /\ bytes_total' = FlushedBytes(bytes_total, rd, rd1)
          /\ requests_duration_seconds' =
               (LET h == FlushedDurations(requests_duration_seconds, rd, rd1)
                IN IF RecordsOnReturn(m, ok) THEN Inc(h, HistogramOf(m), 1) ELSE h)
          /\ errors_total' =
               IF ok THEN errors_total ELSE IncrementErrors(errors_total, m, kind)
          /\ call' = [call EXCEPT !.st = IF out.ok THEN "ok" ELSE "err",
                                  !.kind = out.kind,
                                  !.inner = res,
                                  !.out = out]
    /\ UNCHANGED <<requests_total, n_calls>>
    /\ UNCHANGED <<pagerVars, batchVars, tasksVars, kvVars, whVars, accVars, opVars, statVars>>

\* the future of an async method is dropped before the inner call returns;
\* a reader it holds is dropped with it
MetricsCancel ==
    /\ call.st = "pending"
    /\ call.op \in AsyncOps
    /\ call' = [call EXCEPT !.st = "cancelled"]
    /\ rd' = Gone(rd)
    /\ bytes_total' = FlushedBytes(bytes_total, rd, rd')
    /\ requests_duration_seconds' =
         FlushedDurations(requests_duration_seconds, rd, rd')
    /\ UNCHANGED <<requests_total, errors_total, n_calls>>
    /\ UNCHANGED <<pagerVars, batchVars, tasksVars, kvVars, whVars, accVars, opVars, statVars>>

\* poll_read, read: Ok(n) for a buffer of buf bytes; poll_next, next: a chunk
\* of n bytes. A read of no bytes is the end of the stream.
ReaderReadOk(f, buf, n) ==
    /\ rd.st = "alive"
    /\ ~rd.eof
    /\ ~rd.failed
    /\ f \in ReadApis(rd.op)
    /\ n <= buf
    /\ rd.returned + n <= MaxBytes
    /\ rd' = [rd EXCEPT !.bytes = @ + CountedBytes(buf, n),
                        !.returned = @ + n,
                        !.eof = (n = 0)]
    /\ n = 0 => f \in {"poll_read", "read"}
    /\ UNCHANGED <<requests_total, requests_duration_seconds, bytes_total,
                   errors_total, call, n_calls>>
    /\ UNCHANGED <<pagerVars, batchVars, tasksVars, kvVars, whVars, accVars, opVars, statVars>>

\* poll_next, next: None, the end of the stream
ReaderReadNone(f) ==
    /\ rd.st = "alive"
    /\ ~rd.eof
    /\ ~rd.failed
    /\ f \in ReadApis(rd.op) \cap {"poll_next", "next"}
    /\ rd' = [rd EXCEPT !.eof = TRUE]
    /\ UNCHANGED <<requests_total, requests_duration_seconds, bytes_total,
                   errors_total, call, n_calls>>
    /\ UNCHANGED <<pagerVars, batchVars, tasksVars, kvVars, whVars, accVars, opVars, statVars>>

\* any read method: the inner reader fails, the error counter of the
\* reader's operation goes up with kind Unexpected
ReaderReadErr(f) ==
    /\ rd.st = "alive"
    /\ ~rd.eof
    /\ ~rd.failed
    /\ f \in ReadApis(rd.op)
    /\ rd' = [rd EXCEPT !.failed = TRUE]
    /\ errors_total' = IncrementErrors(errors_total, rd.op, "Unexpected")
    /\ UNCHANGED <<requests_total, requests_duration_seconds, bytes_total,
                   call, n_calls>>
    /\ UNCHANGED <<pagerVars, batchVars, tasksVars, kvVars, whVars, accVars, opVars, statVars>>

\* the holder of the reader drops it: the caller of a read, or the inner
\* call of a write while it runs
ReaderDrop ==
    /\ rd.st = "alive"
    /\ rd' = Dropped(rd)
    /\ bytes_total' = FlushedBytes(bytes_total, rd, rd')
    /\ requests_duration_seconds' =
         FlushedDurations(requests_duration_seconds, rd, rd')
    /\ UNCHANGED <<requests_total, errors_total, call, n_calls>>
    /\ UNCHANGED <<pagerVars, batchVars, tasksVars, kvVars, whVars, accVars, opVars, statVars>>

MetricsInit ==
    /\ requests_total = [o \in Ops |-> 0]
    /\ requests_duration_seconds = [o \in Ops |-> 0]
    /\ bytes_total = [o \in ReadOps \cup WriteOps |-> 0]
    /\ errors_total = << >>
    /\ call = NoCall
    /\ rd = NoReader
    /\ n_calls = 0

MetricsNext ==
    \/ \E m \in Ops : MetricsCall(m)
    \/ \E res \in UNION {InnerResults(m) : m \in Ops} : MetricsReturn(res)
    \/ MetricsCancel
    \/ \E f \in {"poll_read", "poll_next", "read", "next"},
          buf \in 1..MaxBytes, n \in 0..MaxBytes : ReaderReadOk(f, buf, n)
    \/ \E f \in {"poll_next", "next"} : ReaderReadNone(f)
    \/ \E f \in {"poll_read", "poll_next", "read", "next"} : ReaderReadErr(f)
    \/ ReaderDrop

(***************************************************************************)
(* layers/metrics.rs: several calls at a time through one MetricsAccessor.  *)
(* The accessor is Clone and holds an Arc<MetricsHandler>; every task runs  *)
(* one call, each with its own MetricReader, on the handler's counters.     *)
(***************************************************************************)
\* the methods the tasks call
TaskOps == {"read", "blocking_read", "write", "stat"}

NoTask == [call |-> NoCall, rd |-> NoReader]

\* task t enters method m
TaskCall(t, m) ==
    /\ tasks[t].call.st = "idle"
    /\ requests_total' = Inc(requests_total, RequestsCounterOf(m), 1)
    /\ tasks' = [tasks EXCEPT ![t] =
                    [call |-> [NoCall EXCEPT !.op = m, !.st = "pending"],
                     rd |-> IF m \in WriteOps THEN ReaderOf(m) ELSE NoReader]]
    /\ UNCHANGED <<requests_duration_seconds, bytes_total, errors_total,
                   call, rd, n_calls>>
    /\ UNCHANGED <<pagerVars, batchVars, kvVars, whVars, accVars, opVars, statVars>>

\* the inner call of task t returns
TaskReturn(t, res) ==
    /\ tasks[t].call.st = "pending"
    /\ res \in InnerResults(tasks[t].call.op)
    /\ LET m == tasks[t].call.op
           r == tasks[t].rd
           out == OuterResult(m, res)
           rd1 == Gone(r)
       IN /\ bytes_total' = FlushedBytes(bytes_total, r, rd1)
          /\ requests_duration_seconds' =
               (LET h == FlushedDurations(requests_duration_seconds, r, rd1)
                IN IF RecordsOnReturn(m, res.ok)
                   THEN Inc(h, HistogramOf(m), 1) ELSE h)
          /\ errors_total' =
               IF res.ok THEN errors_total
               ELSE IncrementErrors(errors_total, m, res.kind)
          /\ tasks' = [tasks EXCEPT ![t] =
                [call |-> [tasks[t].call EXCEPT
                              !.st = IF out.ok THEN "ok" ELSE "err",
                              !.kind = out.kind,
                              !.inner = res,
                              !.out = out],
                 rd |-> IF m \in ReadOps /\ res.ok THEN ReaderOf(m) ELSE rd1]]
    /\ UNCHANGED <<requests_total, call, rd, n_calls>>
    /\ UNCHANGED <<pagerVars, batchVars, kvVars, whVars, accVars, opVars, statVars>>

\* the future of task t is dropped while its inner call is pending
TaskCancel(t) ==
    /\ tasks[t].call.st = "pending"
    /\ tasks[t].call.op \in AsyncOps
    /\ LET r == tasks[t].rd
           rd1 == Gone(r)
       IN /\ tasks' = [tasks EXCEPT ![t] =
                [call |-> [tasks[t].call EXCEPT !.st = "cancelled"],
                 rd |-> rd1]]
          /\ bytes_total' = FlushedBytes(bytes_total, r, rd1)
          /\ requests_duration_seconds' =
               FlushedDurations(requests_duration_seconds, r, rd1)
    /\ UNCHANGED <<requests_total, errors_total, call, rd, n_calls>>
    /\ UNCHANGED <<pagerVars, batchVars, kvVars, whVars, accVars, opVars, statVars>>

\* a read on the reader of task t hands out n bytes for a buffer of buf
\* bytes; no bytes is the end of the stream
TaskReadOk(t, buf, n) ==
    /\ tasks[t].rd.st = "alive"
    /\ ~tasks[t].rd.eof
    /\ ~tasks[t].rd.failed
    /\ n <= buf
    /\ tasks[t].rd.returned + n <= MaxBytes
    /\ tasks' = [tasks EXCEPT ![t].rd =
                    [@ EXCEPT !.bytes = @ + CountedBytes(buf, n),
                              !.returned = @ + n,
                              !.eof = (n = 0)]]
    /\ UNCHANGED <<requests_total, requests_duration_seconds, bytes_total,
                   errors_total, call, rd, n_calls>>
    /\ UNCHANGED <<pagerVars, batchVars, kvVars, whVars, accVars, opVars, statVars>>

\* a read on the reader of task t fails
TaskReadErr(t) ==
    /\ tasks[t].rd.st = "alive"
    /\ ~tasks[t].rd.eof
    /\ ~tasks[t].rd.failed
    /\ tasks' = [tasks EXCEPT ![t].rd = [@ EXCEPT !.failed = TRUE]]
    /\ errors_total' =
         IncrementErrors(errors_total, tasks[t].rd.op, "Unexpected")
    /\ UNCHANGED <<requests_total, requests_duration_seconds, bytes_total,
                   call, rd, n_calls>>
    /\ UNCHANGED <<pagerVars, batchVars, kvVars, whVars, accVars, opVars, statVars>>

\* the reader of task t is dropped
TaskDrop(t) ==
    /\ tasks[t].rd.st = "alive"
    /\ LET r == tasks[t].rd
           rd1 == Dropped(r)
       IN /\ tasks' = [tasks EXCEPT ![t].rd = rd1]
          /\ bytes_total' = FlushedBytes(bytes_total, r, rd1)
          /\ requests_duration_seconds' =
               FlushedDurations(requests_duration_seconds, r, rd1)
    /\ UNCHANGED <<requests_total, errors_total, call, rd, n_calls>>
    /\ UNCHANGED <<pagerVars, batchVars, kvVars, whVars, accVars, opVars, statVars>>

TasksInit == tasks = [t \in Tasks |-> NoTask]

TasksNext ==
    \/ \E t \in Tasks, m \in TaskOps : TaskCall(t, m)
    \/ \E t \in Tasks, res \in UNION {InnerResults(m) : m \in TaskOps} :
          TaskReturn(t, res)
    \/ \E t \in Tasks : TaskCancel(t)
    \/ \E t \in Tasks, buf \in 1..MaxBytes, n \in 0..MaxBytes :
          TaskReadOk(t, buf, n)
    \/ \E t \in Tasks : TaskReadErr(t)
    \/ \E t \in Tasks : TaskDrop(t)

(***************************************************************************)
(* services/sled/backend.rs: Adapter, the key-value adapter of sled        *)
(***************************************************************************)
\* a path is the sequence of its separators and names: /dir1/file.txt is
\* <<"/", "dir1", "/", "file.txt">>
KvPaths ==
    {<<"/", "file.txt">>,
     <<"/", "dir1", "/", "file.txt">>,
     <<"/", "dir1", "/", "dir2">>,
     <<"/", "dir1", "/", "dir2", "/", "file.txt">>}

\* the values that are stored
KvValues == {"v1", "v2"}

\* the steps of a call at which sled can fail
KvFaults == {"none", "open_tree", "op"}

\* the canonical root namespace
KvRoot == <<"/">>

\* the position of the last separator of a path
LastSlash(p) ==
    CHOOSE i \in 1..Len(p) :
        p[i] = "/" /\ \A j \in (i + 1)..Len(p) : p[j] # "/"

\* get_parent(path): everything but the final segment, the root namespace
\* for a root-level path
get_parent(p) ==
    IF LastSlash(p) = 1 THEN KvRoot ELSE SubSeq(p, 1, LastSlash(p) - 1)

\* get_basename(path): the final segment
get_basename(p) == SubSeq(p, LastSlash(p) + 1, Len(p))

\* Result<Option<Vec<u8>>> and Result<()>: v is the value, "none" for None
\* and "unit" for ()
KvOk(v) == [ok |-> TRUE, kind |-> "none", value |-> v]

\* Error::new(ErrorKind::Unexpected, ..)
KvErr == [ok |-> FALSE, kind |-> "Unexpected", value |-> "none"]

\* what a call of the adapter comes to: its result, the database after it,
\* and the tree and key it addressed
KvOutcome(res, d, tree, key) ==
    [res |-> res, db |-> d, tree |-> tree, key |-> key]

\* sled::Db::open_tree(name): the tree of that name, made if there is none
open_tree(d, name) ==
    IF name \in DOMAIN d THEN d
    ELSE [t \in (DOMAIN d) \cup {name} |-> IF t = name THEN << >> ELSE d[t]]

\* sled::Tree::insert(key, value)
tree_insert(tree, key, value) ==
    [k \in (DOMAIN tree) \cup {key} |-> IF k = key THEN value ELSE tree[k]]

\* sled::Tree::remove(key)
tree_remove(tree, key) == [k \in (DOMAIN tree) \ {key} |-> tree[k]]

blocking_get_not_found(d, p, fault) ==
    LET parent == get_parent(p)
        basename == get_basename(p)
        d1 == open_tree(d, parent)
    IN IF fault = "open_tree" THEN KvOutcome(KvErr, d, parent, basename)
       ELSE IF fault = "op" THEN KvOutcome(KvErr, d1, parent, basename)
       ELSE IF basename \in DOMAIN d1[parent]
       THEN KvOutcome(KvOk(d1[parent][basename]), d1, parent, basename)
       ELSE KvOutcome([ok |-> FALSE, kind |-> "ObjectNotFound", value |-> "none"],
                      d1, parent, basename)

\* Adapter::blocking_get(path)
blocking_get(d, p, fault) ==
    LET parent == get_parent(p)
        basename == get_basename(p)
        d1 == open_tree(d, parent)
    IN IF fault = "open_tree" THEN KvOutcome(KvErr, d, parent, basename)
       ELSE IF fault = "op" THEN KvOutcome(KvErr, d1, parent, basename)
       ELSE KvOutcome(KvOk(IF basename \in DOMAIN d1[parent]
                           THEN d1[parent][basename] ELSE "none"),
                      d1, parent, basename)

blocking_set_in_root(d, p, value, fault) ==
    LET parent == KvRoot
        basename == get_basename(p)
        d1 == open_tree(d, parent)
    IN IF fault = "open_tree" THEN KvOutcome(KvErr, d, parent, basename)
       ELSE IF fault = "op" THEN KvOutcome(KvErr, d1, parent, basename)
       ELSE KvOutcome(KvOk("unit"),
                      [d1 EXCEPT ![parent] = tree_insert(@, basename, value)],
                      parent, basename)

blocking_set_whole_path(d, p, value, fault) ==
    LET parent == get_parent(p)
        basename == p
        d1 == open_tree(d, parent)
    IN IF fault = "open_tree" THEN KvOutcome(KvErr, d, parent, basename)
       ELSE IF fault = "op" THEN KvOutcome(KvErr, d1, parent, basename)
       ELSE KvOutcome(KvOk("unit"),
                      [d1 EXCEPT ![parent] = tree_insert(@, basename, value)],
                      parent, basename)

\* Adapter::blocking_set(path, value)
blocking_set(d, p, value, fault) ==
    LET parent == get_parent(p)
        basename == get_basename(p)
        d1 == open_tree(d, parent)
    IN IF fault = "open_tree" THEN KvOutcome(KvErr, d, parent, basename)
       ELSE IF fault = "op" THEN KvOutcome(KvErr, d1, parent, basename)
       ELSE KvOutcome(KvOk("unit"),
                      [d1 EXCEPT ![parent] = tree_insert(@, basename, value)],
                      parent, basename)

\* Adapter::blocking_delete(path)
blocking_delete(d, p, fault) ==
    LET parent == get_parent(p)
        basename == get_basename(p)
        d1 == open_tree(d, parent)
    IN IF fault = "open_tree" THEN KvOutcome(KvErr, d, parent, basename)
       ELSE IF fault = "op" THEN KvOutcome(KvErr, d1, parent, basename)
       ELSE KvOutcome(KvOk("unit"),
                      [d1 EXCEPT ![parent] = tree_remove(@, basename)],
                      parent, basename)

\* Adapter::get(path): self.blocking_get(path)
get(d, p, fault) == blocking_get(d, p, fault)

\* Adapter::set(path, value): self.blocking_set(path, value)
set(d, p, value, fault) == blocking_set(d, p, value, fault)

delete_nothing(d, p, fault) ==
    KvOutcome(KvOk("unit"), d, get_parent(p), get_basename(p))

\* Adapter::delete(path): self.blocking_delete(path)
delete(d, p, fault) == blocking_delete(d, p, fault)

NoKvCall ==
    [form |-> "none", op |-> "none", path |-> << >>, value |-> "none",
     fault |-> "none", res |-> KvErr, tree |-> << >>, key |-> << >>]

\* the call is made and has returned: what it does to the adapter
KvEffect(form, op, p, value, fault, out) ==
    /\ kv_calls < MaxKvCalls
    /\ kv_calls' = kv_calls + 1
    /\ db' = out.db
    /\ kv_last' = [form |-> form, op |-> op, path |-> p, value |-> value,
                   fault |-> fault, res |-> out.res, tree |-> out.tree,
                   key |-> out.key]
    /\ kv_model' =
         IF out.res.ok /\ op = "set" THEN [kv_model EXCEPT ![p] = value]
         ELSE IF out.res.ok /\ op = "delete" THEN [kv_model EXCEPT ![p] = "none"]
         ELSE kv_model

\* a call of the adapter by itself
KvReturned(form, op, p, value, fault, out) ==
    /\ KvEffect(form, op, p, value, fault, out)
    /\ UNCHANGED <<pagerVars, batchVars, metricsVars, tasksVars, whVars, accVars, opVars, statVars>>

\* get and blocking_get
KvGet(form, p, fault) ==
    KvReturned(form, "get", p, "none", fault,
               IF form = "async" THEN get(db, p, fault)
               ELSE blocking_get(db, p, fault))

\* set and blocking_set
KvSet(form, p, value, fault) ==
    KvReturned(form, "set", p, value, fault,
               IF form = "async" THEN set(db, p, value, fault)
               ELSE blocking_set(db, p, value, fault))

\* delete and blocking_delete
KvDelete(form, p, fault) ==
    KvReturned(form, "delete", p, "none", fault,
               IF form = "async" THEN delete(db, p, fault)
               ELSE blocking_delete(db, p, fault))

KvInit ==
    /\ db = << >>
    /\ kv_last = NoKvCall
    /\ kv_model = [p \in KvPaths |-> "none"]
    /\ kv_calls = 0

KvNext ==
    \/ \E form \in {"async", "blocking"}, p \in KvPaths, fault \in KvFaults :
          KvGet(form, p, fault)
    \/ \E form \in {"async", "blocking"}, p \in KvPaths, value \in KvValues,
          fault \in KvFaults : KvSet(form, p, value, fault)
    \/ \E form \in {"async", "blocking"}, p \in KvPaths, fault \in KvFaults :
          KvDelete(form, p, fault)

(***************************************************************************)
(* services/webhdfs/backend.rs: WebhdfsBackend                             *)
(***************************************************************************)
\* Option<u64>: None, Some(v)
NoneU == << >>
SomeU(v) == <<v>>

\* BytesRange::new(offset, size)
BytesRange(offset, size) == [offset |-> offset, size |-> size]

\* the number of values of a u64
U64 == 2 ^ WordBits

\* a path is the sequence of its characters
WhPaths == {<<"f">>, <<"d", "/">>}

\* path.ends_with('/')
ends_with_slash(p) == Len(p) > 0 /\ p[Len(p)] = "/"

\* path.trim_end_matches('/')
RECURSIVE trim_end_matches_slash(_)
trim_end_matches_slash(p) ==
    IF ends_with_slash(p)
    THEN trim_end_matches_slash(SubSeq(p, 1, Len(p) - 1))
    ELSE p

\* the inode a path names on the server: the root is the empty sequence
Inode(p) == trim_end_matches_slash(p)

Inodes == {<< >>, <<"f">>, <<"d">>}

HdfsNone == [ty |-> "none", len |-> 0]
HdfsFile(len) == [ty |-> "FILE", len |-> len]
HdfsDir == [ty |-> "DIRECTORY", len |-> 0]

\* what each inode can be: the root and d a directory, f a file; the root
\* may also be missing or occupied by a file
HdfsEntries(i) ==
    CASE i = << >> -> {HdfsNone, HdfsDir, HdfsFile(0)}
      [] i = <<"f">> -> {HdfsNone} \cup {HdfsFile(n) : n \in 0..MaxObjLen}
      [] OTHER -> {HdfsNone, HdfsDir}

\* Request::get / put / delete (url with op, offset and length) .body(body)
Request(method, op, p, offset, size, body) ==
    [method |-> method, op |-> op, path |-> p, offset |-> offset,
     size |-> size, body |-> body]

\* a response: the status, and what its body says
Response(status, ty, len, boolean, location) ==
    [status |-> status, ty |-> ty, len |-> len, boolean |-> boolean,
     location |-> location]

Status(status) == Response(status, "none", 0, FALSE, FALSE)

\* the server's answer to a request, and the namespace after it
Served(resp, h) == [resp |-> resp, hdfs |-> h]

\* the bytes a request body carries: AsyncBody::Empty none, and the source
\* stream of a write one byte
BodyLen(body) == IF body = "Reader" THEN 1 ELSE 0

\* the WebHDFS service: namenode and datanode
Server(h, req, faulty) ==
    LET i == Inode(req.path)
        e == h[i]
    IN IF faulty THEN Served(Status(500), h)
       ELSE CASE req.op = "GETFILESTATUS" ->
                   IF e.ty = "none" THEN Served(Status(404), h)
                   ELSE Served(Response(200, e.ty, e.len, FALSE, FALSE), h)
              [] req.op = "MKDIRS" ->
                   IF e.ty = "FILE"
                   THEN Served(Response(200, "none", 0, FALSE, FALSE), h)
                   ELSE Served(Response(200, "none", 0, TRUE, FALSE),
                               [h EXCEPT ![i] = HdfsDir])
              [] req.op = "CREATE" ->
                   IF e.ty = "DIRECTORY" THEN Served(Status(403), h)
                   ELSE Served(Response(200, "none", 0, FALSE, TRUE), h)
              [] req.op = "DATA_PUT" ->
                   IF i \in Inodes /\ HdfsFile(0) \in HdfsEntries(i)
                   THEN Served(Status(201),
                               [h EXCEPT ![i] = HdfsFile(BodyLen(req.body))])
                   ELSE Served(Status(403), h)
              [] req.op = "OPEN" ->
                   IF e.ty = "none" THEN Served(Status(404), h)
                   ELSE IF e.ty = "DIRECTORY" THEN Served(Status(403), h)
                   ELSE IF req.offset # NoneU /\ req.offset[1] > e.len
                   THEN Served(Status(403), h)
                   ELSE Served(Response(200, "none", 0, FALSE, TRUE), h)
              [] req.op = "DATA_GET" -> Served(Status(200), h)
              [] req.op = "DELETE" ->
                   IF i = << >> THEN Served(Status(403), h)
                   ELSE Served(Response(200, "none", 0, e.ty # "none", FALSE),
                               [h EXCEPT ![i] = HdfsNone])
              [] req.op = "LISTSTATUS" ->
                   IF e.ty = "none" THEN Served(Status(404), h)
                   ELSE Served(Status(200), h)

\* a call under way: the namespace, the requests sent so far with their
\* responses, and the number of the request that the server fails (0: none)
Ctx(h, reqs, fail) == [hdfs |-> h, http |-> reqs, fail |-> fail]

\* a request and the response to it
Exchange(req, resp) == [req |-> req, resp |-> resp]

\* the one element of a set of one element: Only({f(x) : x \in {e}}) is
\* f(e) with e worked out once
Only(S) == CHOOSE v \in S : TRUE

\* self.client.send_async(req)
Send(c, req) ==
    Only({[c |-> Ctx(s.hdfs, Append(c.http, Exchange(req, s.resp)), c.fail),
           resp |-> s.resp] :
          s \in {Server(c.hdfs, req, Len(c.http) + 1 = c.fail)}})

\* Result<_>: Ok (with the content length, where there is one), Err(kind),
\* or a panic of the call
WhOk(len) == [st |-> "ok", kind |-> "none", len |-> len]
WhErr(kind) == [st |-> "err", kind |-> kind, len |-> 0]
WhPanic == [st |-> "panic", kind |-> "none", len |-> 0]

\* super::error::parse_error(resp)
parse_error(resp) ==
    WhErr(CASE resp.status = 404 -> "ObjectNotFound"
            [] resp.status = 403 -> "ObjectPermissionDenied"
            [] OTHER -> "Unexpected")

\* what a method comes to: the call's context, the root checker, the result
\* and, for the request builders, the request
Out(c, rc, res, req) == [c |-> c, rc |-> rc, res |-> res, req |-> req]

NoRequest == Request("none", "none", << >>, NoneU, NoneU, "Empty")

\* webhdfs_create_object_req(path, size, content_type, body)
webhdfs_create_object_req(c, rc, p, body) ==
    IF ends_with_slash(p)
    THEN Out(c, rc, WhOk(0), Request("PUT", "MKDIRS", p, NoneU, NoneU, "Empty"))
    ELSE Only({\* webhdfs_put_redirect, follow_redirect
               IF s.resp.location
               THEN Out(s.c, rc, WhOk(0),
                        Request("PUT", "DATA_PUT", p, NoneU, NoneU, body))
               ELSE Out(s.c, rc, WhErr("Unexpected"), NoRequest) :
               s \in {Send(c, Request("PUT", "CREATE", p, NoneU, NoneU,
                                      "Empty"))}})

\* the path create works on: a file's without, a directory's with the
\* slash at its end
create_path(p0, mode) ==
    IF mode = "FILE" /\ ends_with_slash(p0) THEN trim_end_matches_slash(p0)
    ELSE IF mode = "DIR" /\ ~ends_with_slash(p0) THEN Append(p0, "/")
    ELSE p0

\* WebhdfsBackend::create, once the request is built and sent
create_response(s, rc, p) ==
    IF s.resp.status \in {200, 201}
    THEN IF ~ends_with_slash(p) THEN Out(s.c, rc, WhOk(0), NoRequest)
         \* consume_success_mkdir
         ELSE IF s.resp.boolean THEN Out(s.c, rc, WhOk(0), NoRequest)
         ELSE Out(s.c, rc, WhErr("Unexpected"), NoRequest)
    ELSE Out(s.c, rc, parse_error(s.resp), NoRequest)

\* WebhdfsBackend::create(path, args)
create(c, rc, p0, mode) ==
    Only({IF r.res.st # "ok" THEN r
          ELSE Only({create_response(s, rc, create_path(p0, mode)) :
                     s \in {Send(r.c, r.req)}}) :
          r \in {webhdfs_create_object_req(c, rc, create_path(p0, mode),
                                           "Empty")}})

\* webhdfs_status_object(path): GETFILESTATUS
webhdfs_status_object(c, p) ==
    Send(c, Request("GET", "GETFILESTATUS", p, NoneU, NoneU, "Empty"))

\* WebhdfsBackend::check_root
check_root(c, rc) ==
    Only({CASE s.resp.status = 200 ->
                 IF s.resp.ty = "FILE"
                 THEN Out(s.c, rc, WhErr("BackendConfigInvalid"), NoRequest)
                 ELSE Out(s.c, rc, WhOk(0), NoRequest)
            [] s.resp.status = 404 ->
                 create(s.c, rc, <<"/">>, "DIR")
            [] OTHER -> Out(s.c, rc, parse_error(s.resp), NoRequest) :
          s \in {webhdfs_status_object(c, <<"/">>)}})

\* WebhdfsBackend::stat, once the root is known to be there
stat_object(c, p) ==
    Only({IF s.resp.status = 200
          THEN Out(s.c, TRUE, WhOk(s.resp.len), NoRequest)
          ELSE Out(s.c, TRUE, parse_error(s.resp), NoRequest) :
          s \in {webhdfs_status_object(c, p)}})

\* WebhdfsBackend::stat(path, _): root_checker.get_or_try_init(check_root),
\* then GETFILESTATUS of the path
stat(c, rc, p) ==
    IF rc THEN stat_object(c, p)
    ELSE Only({IF k.res.st # "ok" THEN Out(k.c, FALSE, k.res, NoRequest)
               ELSE stat_object(k.c, p) :
               k \in {check_root(c, rc)}})

subtract_from_size(total_size, size, build) ==
    SomeU((size - total_size + U64) % U64)

\* total_size - size on u64: an overflow panics in a build with overflow
\* checks and wraps around in one without; None stands for the panic
subtract(total_size, size, build) ==
    IF size > total_size
    THEN IF build = "debug" THEN NoneU
         ELSE SomeU((total_size - size + U64) % U64)
    ELSE SomeU(total_size - size)

\* webhdfs_open_req(path, range)
webhdfs_open_req(c, rc, p, range, build) ==
    IF range.offset = NoneU /\ range.size # NoneU
    THEN Only({IF st.res.st # "ok" THEN st
               ELSE Only({IF offset = NoneU
                          THEN Out(st.c, st.rc, WhPanic, NoRequest)
                          ELSE Out(st.c, st.rc, WhOk(0),
                                   Request("GET", "OPEN", p, offset,
                                           range.size, "Empty")) :
                          offset \in {subtract(st.res.len, range.size[1],
                                               build)}}) :
               st \in {stat(c, rc, p)}})
    ELSE Out(c, rc, WhOk(0),
             Request("GET", "OPEN", p, range.offset, range.size, "Empty"))

\* the request was built: what webhdfs_get_object returns and the response
\* it comes with
Got(out, resp) == [out |-> out, resp |-> resp]

\* webhdfs_get_object, once the OPEN request is sent: the redirect
webhdfs_get_redirected(s, r, p) ==
    IF s.resp.status # 200 THEN Got(Out(s.c, r.rc, WhOk(0), r.req), s.resp)
    \* webhdfs_get_redirect, follow_redirect
    ELSE IF ~s.resp.location
    THEN Got(Out(s.c, r.rc, WhErr("Unexpected"), r.req), s.resp)
    ELSE Only({Got(Out(d.c, r.rc, WhOk(0), r.req), d.resp) :
               d \in {Send(s.c, Request("GET", "DATA_GET", p, r.req.offset,
                                        r.req.size, "Empty"))}})

\* webhdfs_get_object(path, range): the OPEN request, then the redirect
webhdfs_get_object(c, rc, p, range, build) ==
    Only({IF r.res.st # "ok" THEN Got(r, Status(0))
          ELSE Only({webhdfs_get_redirected(s, r, p) :
                     s \in {Send(r.c, r.req)}}) :
          r \in {webhdfs_open_req(c, rc, p, range, build)}})

read_not_found_ok(c, rc, p, range, build) ==
    webhdfs_get_object(c, rc, p, range, build).out

\* WebhdfsBackend::read(path, args)
read(c, rc, p, range, build) ==
    Only({IF g.out.res.st # "ok" THEN g.out
          ELSE CASE g.resp.status \in {200, 206} -> g.out
                 [] g.resp.status = 404 ->
                      [g.out EXCEPT !.res = WhErr("ObjectNotFound")]
                 [] OTHER -> [g.out EXCEPT !.res = parse_error(g.resp)] :
          g \in {webhdfs_get_object(c, rc, p, range, build)}})

\* WebhdfsBackend::write(path, args, r)
write(c, rc, p) ==
    Only({IF r.res.st # "ok" THEN r
          ELSE Only({IF s.resp.status \in {200, 201}
                     THEN Out(s.c, rc, WhOk(0), NoRequest)
                     ELSE Out(s.c, rc, parse_error(s.resp), NoRequest) :
                     s \in {Send(r.c, r.req)}}) :
          r \in {webhdfs_create_object_req(c, rc, p, "Reader")}})

\* WebhdfsBackend::delete(path, _)
webhdfs_delete(c, rc, p) ==
    Only({IF s.resp.status = 200 THEN Out(s.c, rc, WhOk(0), NoRequest)
          ELSE Out(s.c, rc, parse_error(s.resp), NoRequest) :
          s \in {Send(c, Request("DELETE", "DELETE", p, NoneU, NoneU,
                                 "Empty"))}})

\* WebhdfsBackend::list(path, _): a 404 is an empty listing
list(c, rc, p0) ==
    Only({IF s.resp.status \in {200, 404} THEN Out(s.c, rc, WhOk(0), NoRequest)
          ELSE Out(s.c, rc, parse_error(s.resp), NoRequest) :
          s \in {Send(c, Request("GET", "LISTSTATUS",
                                 trim_end_matches_slash(p0), NoneU, NoneU,
                                 "Empty"))}})

\* the methods impl Accessor for WebhdfsBackend defines; the others are
\* the defaults of the Accessor trait
WebhdfsImplemented ==
    {"metadata", "create", "read", "write", "stat", "delete", "list"}

\* the default of an Accessor method: Unsupported, before any I/O
unsupported(c, rc) == Out(c, rc, WhErr("Unsupported"), NoRequest)

\* the capabilities an operation is gated behind
NeededCapabilities(op) ==
    CASE op = "metadata" -> {}
      [] op \in {"read", "stat"} -> {"Read"}
      [] op \in {"create", "write", "delete"} -> {"Write"}
      [] op = "list" -> {"List"}
      [] op = "presign" -> {"Presign"}
      [] op \in {"create_multipart", "write_multipart", "complete_multipart",
                 "abort_multipart"} -> {"Multipart"}
      [] op \in {"blocking_read", "blocking_stat"} -> {"Blocking", "Read"}
      [] op \in {"blocking_create", "blocking_write", "blocking_delete"} ->
           {"Blocking", "Write"}
      [] op = "blocking_list" -> {"Blocking", "List"}

\* the byte ranges of a read
Opt(S) == {NoneU} \cup {SomeU(v) : v \in S}
WhRanges ==
    {BytesRange(o, z) : o \in Opt({1}), z \in Opt({1, MaxObjLen + 1})}

\* whether the build checks arithmetic overflow
Builds == {"debug", "release"}

\* a call sends at most 5 requests: two of check_root, GETFILESTATUS, OPEN
\* and the read from the datanode
Fails == 0..5

NoRange == BytesRange(NoneU, NoneU)

NoWhCall ==
    [op |-> "none", path |-> << >>, range |-> NoRange, build |-> "none",
     mode |-> "none", res |-> WhErr("none")]

\* the call is made and is over
WhReturned(op, p, range, build, mode, out) ==
    /\ \E o \in {out} :
          /\ hdfs' = o.c.hdfs
          /\ http' = o.c.http
          /\ root_checker' = o.rc
          /\ wh_last' = [op |-> op, path |-> p, range |-> range,
                         build |-> build, mode |-> mode, res |-> o.res]
    /\ UNCHANGED <<pagerVars, batchVars, metricsVars, tasksVars, kvVars, accVars, opVars, statVars>>

\* WebhdfsBackend::metadata(): no request is sent
WhMetadata ==
    /\ WebhdfsMetadata.scheme = "webhdfs"
    /\ WhReturned("metadata", << >>, NoRange, "none", "none",
                  Out(Ctx(hdfs, << >>, 0), root_checker, WhOk(0), NoRequest))

\* WebhdfsBuilder::build(): a backend of the service, with a OnceCell not
\* yet set; it takes the place of the backend followed so far
WhBuild ==
    WhReturned("build", << >>, NoRange, "none", "none",
               Out(Ctx(hdfs, << >>, 0), FALSE, WhOk(0), NoRequest))

WhCreate(p, mode, fail) ==
    WhReturned("create", p, NoRange, "none", mode,
               create(Ctx(hdfs, << >>, fail), root_checker, p, mode))

WhRead(p, range, build, fail) ==
    \* the build matters to a range of a size and no offset only
    /\ (range.offset # NoneU \/ range.size = NoneU) => build = "release"
    /\ WhReturned("read", p, range, build, "none",
                  read(Ctx(hdfs, << >>, fail), root_checker, p, range, build))

WhWrite(p, fail) ==
    WhReturned("write", p, NoRange, "none", "none",
               write(Ctx(hdfs, << >>, fail), root_checker, p))

WhStat(p, fail) ==
    WhReturned("stat", p, NoRange, "none", "none",
               stat(Ctx(hdfs, << >>, fail), root_checker, p))

WhDelete(p, fail) ==
    WhReturned("delete", p, NoRange, "none", "none",
               webhdfs_delete(Ctx(hdfs, << >>, fail), root_checker, p))

WhList(p, fail) ==
    WhReturned("list", p, NoRange, "none", "none",
               list(Ctx(hdfs, << >>, fail), root_checker, p))

\* a method that WebhdfsBackend leaves to the Accessor trait
WhDefault(op) ==
    /\ op \notin WebhdfsImplemented
    /\ WhReturned(op, << >>, NoRange, "none", "none",
                  unsupported(Ctx(hdfs, << >>, 0), root_checker))

\* another client of the service changes inode i
HdfsChange(i, e) ==
    /\ e \in HdfsEntries(i)
    /\ hdfs[i] # e
    /\ hdfs' = [hdfs EXCEPT ![i] = e]
    /\ UNCHANGED <<root_checker, http, wh_last>>
    /\ UNCHANGED <<pagerVars, batchVars, metricsVars, tasksVars, kvVars, accVars, opVars, statVars>>

WebhdfsInit ==
    /\ hdfs = [i \in Inodes |-> IF i = << >> THEN HdfsDir ELSE HdfsNone]
    /\ root_checker = FALSE
    /\ http = << >>
    /\ wh_last = NoWhCall

WebhdfsNext ==
    \/ WhBuild
    \/ WhMetadata
    \/ \E p \in WhPaths, fail \in Fails : WhWrite(p, fail)
    \/ \E p \in WhPaths, mode \in {"FILE", "DIR"}, fail \in Fails :
          WhCreate(p, mode, fail)
    \/ \E p \in WhPaths, range \in WhRanges, build \in Builds, fail \in Fails :
          WhRead(p, range, build, fail)
    \/ \E p \in WhPaths, fail \in Fails : WhStat(p, fail)
    \/ \E p \in WhPaths, fail \in Fails : WhDelete(p, fail)
    \/ \E p \in WhPaths, fail \in Fails : WhList(p, fail)
    \/ \E op \in Ops : WhDefault(op)
    \/ \E i \in Inodes, e \in {HdfsNone, HdfsDir} \cup
                              {HdfsFile(n) : n \in 0..MaxObjLen} :
          HdfsChange(i, e)

(***************************************************************************)
(* services/sled/backend.rs: SledBackend = kv::Backend<Adapter>            *)
(***************************************************************************)
\* the Accessor methods kv::Backend defines, each by calls of the adapter;
\* the others are the defaults of the Accessor trait
KvBackendImplemented ==
    {"metadata", "create", "read", "write", "stat", "delete",
     "blocking_create", "blocking_read", "blocking_write", "blocking_stat",
     "blocking_delete"}

\* the form of the adapter's method an Accessor method calls
AdapterForm(op) ==
    IF op \in {"blocking_create", "blocking_read", "blocking_write",
               "blocking_stat", "blocking_delete"}
    THEN "blocking" ELSE "async"

\* the adapter's method an Accessor method calls: read and stat get the
\* value, create and write set it, delete deletes it
AdapterOp(op) ==
    CASE op \in {"read", "stat", "blocking_read", "blocking_stat"} -> "get"
      [] op \in {"create", "write", "blocking_create", "blocking_write"} ->
           "set"
      [] op \in {"delete", "blocking_delete"} -> "delete"

\* Err(Error::new(kind, ..)) of an Accessor method
AccErr(kind) == [ok |-> FALSE, kind |-> kind, value |-> "none"]

\* what the Accessor method returns for what the adapter returned: a read
\* or stat of a value that is not there is ObjectNotFound
AccResult(op, res) ==
    IF AdapterOp(op) = "get" /\ res = KvOk("none")
    THEN AccErr("ObjectNotFound")
    ELSE res

NoSledCall == [op |-> "none", path |-> << >>, res |-> AccErr("none")]

\* the adapter's outcome for a method of the form and the name
AdapterCall(form, op, p, value, fault) ==
    CASE op = "get" -> IF form = "async" THEN get(db, p, fault)
                       ELSE blocking_get(db, p, fault)
      [] op = "set" -> IF form = "async" THEN set(db, p, value, fault)
                       ELSE blocking_set(db, p, value, fault)
      [] op = "delete" -> IF form = "async" THEN delete(db, p, fault)
                          ELSE blocking_delete(db, p, fault)

\* SledBackend::metadata(): the adapter's metadata, no call of the store
SledAccMetadata ==
    /\ SledMetadata.scheme = "sled"
    /\ sled_last' = [op |-> "metadata", path |-> << >>, res |-> KvOk("unit")]
    /\ UNCHANGED <<pagerVars, batchVars, metricsVars, tasksVars, kvVars,
                   whVars, opVars, statVars>>

\* a method of kv::Backend that works on a path: one call of the adapter
SledAccCall(op, p, value, fault) ==
    /\ op \in KvBackendImplemented \ {"metadata"}
    /\ kv_calls < MaxAccCalls
    \* create sets an empty value, write the value it is given
    /\ value = "none" <=> AdapterOp(op) # "set"
    /\ op \in {"create", "blocking_create"} <=> value = "empty"
    /\ \E out \in {AdapterCall(AdapterForm(op), AdapterOp(op), p, value,
                                fault)} :
          /\ KvEffect(AdapterForm(op), AdapterOp(op), p, value, fault, out)
          /\ sled_last' = [op |-> op, path |-> p,
                           res |-> AccResult(op, out.res)]
    /\ UNCHANGED <<pagerVars, batchVars, metricsVars, tasksVars, whVars,
                   opVars, statVars>>

\* a method that kv::Backend leaves to the Accessor trait: Unsupported,
\* and no call of the adapter
SledAccDefault(op) ==
    /\ op \notin KvBackendImplemented
    /\ sled_last' = [op |-> op, path |-> << >>,
                     res |-> AccErr("Unsupported")]
    /\ UNCHANGED <<pagerVars, batchVars, metricsVars, tasksVars, kvVars,
                   whVars, opVars, statVars>>

SledAccInit == sled_last = NoSledCall

SledAccNext ==
    \/ SledAccMetadata
    \/ \E op \in Ops, p \in KvPaths, value \in KvValues \cup {"none", "empty"},
          fault \in KvFaults : SledAccCall(op, p, value, fault)
    \/ \E op \in Ops : SledAccDefault(op)

(***************************************************************************)
(* operator.rs: OperatorBuilder and Operator                               *)
(***************************************************************************)
\* the layers a caller hands to layer()
UserLayers == {"LoggingLayer", "MetricsLayer"}

\* the accessor a builder starts from
Backend == <<"backend">>

\* Layer::layer(inner): the layer wrapped over the accessor; a chain is the
\* sequence of its layers from the outermost to the backend
Layered(l, inner) == <<l>> \o inner

\* OperatorBuilder::new(accessor)
OperatorBuilder_new(accessor) ==
    Layered("CompleteReaderLayer", Layered("ErrorContextLayer", accessor))

\* OperatorBuilder::layer(self, layer)
OperatorBuilder_layer(accessor, l) == Layered(l, accessor)

finish_unerased(accessor) == accessor

\* OperatorBuilder::finish(self): the accessor of the Operator
finish(accessor) == OperatorBuilder_layer(accessor, "TypeEraseLayer")

layer_in_place(as, a, l) ==
    [as EXCEPT ![a] = Layered("TypeEraseLayer", Layered(l, as[a]))]

\* Operator::layer(self, layer): the allocations after
\* Arc::new(TypeEraseLayer.layer(layer.layer(self.accessor)))
layer(as, a, l) ==
    Append(as, Layered("TypeEraseLayer", Layered(l, as[a])))

\* Operator::inner(): the chain a handle dispatches through
inner(as, hs, h) == as[hs[h].arc]

\* an Operator, an Object or a BatchOperator: it holds an Arc of a chain
Handle(kind, a) == [kind |-> kind, arc |-> a]

\* ErrorKind of the errors a list can meet
CheckErrors == {"ObjectNotFound", "Unexpected"}

\* what self.object("/").list().await returns, and the first item of the
\* stream: "ok", "entry", "end" (the stream is over) or the error's kind
ListResults == {"ok"} \cup CheckErrors
FirstItems == {"entry", "end"} \cup CheckErrors

\* Operator::check(): Ok(()) is "ok", Err(e) is e's kind
check(listed, first) ==
    IF listed # "ok" THEN listed
    ELSE IF first \in CheckErrors /\ first # "ObjectNotFound" THEN first
    ELSE "ok"

NoCheck == [listed |-> "none", first |-> "none", ret |-> "none"]

\* OperatorBuilder::new(acc), through Operator::new or Operator::create;
\* one builder is followed, and the Operators that come of it
BuilderNew ==
    /\ ob = << >>
    /\ arcs = << >>
    /\ ob' = OperatorBuilder_new(Backend)
    /\ ob_layers' = << >>
    /\ UNCHANGED <<arcs, handles, check_last>>
    /\ UNCHANGED <<pagerVars, batchVars, metricsVars, tasksVars, kvVars,
                   whVars, accVars, statVars>>

\* OperatorBuilder::layer(layer)
BuilderLayer(l) ==
    /\ ob # << >>
    /\ Len(ob_layers) < MaxLayers
    /\ ob' = OperatorBuilder_layer(ob, l)
    /\ ob_layers' = Append(ob_layers, l)
    /\ UNCHANGED <<arcs, handles, check_last>>
    /\ UNCHANGED <<pagerVars, batchVars, metricsVars, tasksVars, kvVars,
                   whVars, accVars, statVars>>

\* OperatorBuilder::finish(): the builder is consumed
BuilderFinish ==
    /\ ob # << >>
    /\ Len(arcs) < MaxArcs
    /\ Len(handles) < MaxHandles
    /\ arcs' = Append(arcs, finish(ob))
    /\ handles' = Append(handles, Handle("Operator", Len(arcs) + 1))
    /\ ob' = << >>
    /\ ob_layers' = << >>
    /\ UNCHANGED check_last
    /\ UNCHANGED <<pagerVars, batchVars, metricsVars, tasksVars, kvVars,
                   whVars, accVars, statVars>>

\* Operator::layer(self, layer): the Operator h is consumed and the new one
\* takes its place
OperatorLayer(h, l) ==
    /\ h \in DOMAIN handles
    /\ handles[h].kind = "Operator"
    /\ Len(arcs) < MaxArcs
    /\ arcs' = layer(arcs, handles[h].arc, l)
    /\ handles' = [handles EXCEPT ![h] = Handle("Operator", Len(arcs'))]
    /\ UNCHANGED <<ob, ob_layers, check_last>>
    /\ UNCHANGED <<pagerVars, batchVars, metricsVars, tasksVars, kvVars,
                   whVars, accVars, statVars>>

\* Operator::clone(), Operator::object(path), Operator::batch(): a value of
\* the kind that holds a clone of the Operator h
OperatorClone(h, kind) ==
    /\ h \in DOMAIN handles
    /\ handles[h].kind = "Operator"
    /\ Len(handles) < MaxHandles
    /\ handles' = Append(handles, Handle(kind, handles[h].arc))
    /\ UNCHANGED <<ob, ob_layers, arcs, check_last>>
    /\ UNCHANGED <<pagerVars, batchVars, metricsVars, tasksVars, kvVars,
                   whVars, accVars, statVars>>

\* Operator::check() on the Operator h
OperatorCheck(h, listed, first) ==
    /\ h \in DOMAIN handles
    /\ handles[h].kind = "Operator"
    \* no stream is polled when the list call failed
    /\ listed # "ok" => first = "end"
    /\ check_last' = [listed |-> listed, first |-> first,
                      ret |-> check(listed, first)]
    /\ UNCHANGED <<ob, ob_layers, arcs, handles>>
    /\ UNCHANGED <<pagerVars, batchVars, metricsVars, tasksVars, kvVars,
                   whVars, accVars, statVars>>

OperatorInit ==
    /\ ob = << >>
    /\ ob_layers = << >>
    /\ arcs = << >>
    /\ handles = << >>
    /\ check_last = NoCheck

OperatorNext ==
    \/ BuilderNew
    \/ \E l \in UserLayers : BuilderLayer(l)
    \/ BuilderFinish
    \/ \E h \in 1..MaxHandles, l \in UserLayers : OperatorLayer(h, l)
    \/ \E h \in 1..MaxHandles, kind \in {"Operator", "Object", "BatchOperator"} :
          OperatorClone(h, kind)
    \/ \E h \in 1..MaxHandles, listed \in ListResults, first \in FirstItems :
          OperatorCheck(h, listed, first)

(***************************************************************************)
(* services/webhdfs/backend.rs: WebhdfsBackend::stat, called concurrently  *)
(***************************************************************************)
\* a stat call of a task: where it stands, its path, what it returned, and
\* whether it has sent the GETFILESTATUS request for its path
StatAt(at, p, res, queried) ==
    [pc |-> at, path |-> p, res |-> res, queried |-> queried]

NoStat == StatAt("idle", << >>, WhErr("none"), FALSE)

may_acquire_always(cell, holder) == TRUE

\* OnceCell::get_or_try_init: the permit of the cell is acquired when no
\* task holds it; once the cell is set the wait is over as well
may_acquire(cell, holder) == cell \/ holder = "free"

\* stat(path, _) is called
StatCall(t, p) ==
    /\ stat_at[t].pc \in {"idle", "done"}
    /\ stats < MaxStats
    /\ stats' = stats + 1
    /\ stat_at' = [stat_at EXCEPT
                       ![t] = StatAt("cell", p, WhErr("none"), FALSE)]
    /\ UNCHANGED <<permit, inits, whVars>>
    /\ UNCHANGED <<pagerVars, batchVars, metricsVars, tasksVars, kvVars,
                   accVars, opVars>>

\* self.root_checker.get_or_try_init(..): the cell is set, or the task goes
\* for the permit
CellGet(t) ==
    /\ stat_at[t].pc = "cell"
    /\ stat_at' = [stat_at EXCEPT
                       ![t].pc = IF root_checker THEN "query" ELSE "acquire"]
    /\ UNCHANGED <<permit, inits, stats, whVars>>
    /\ UNCHANGED <<pagerVars, batchVars, metricsVars, tasksVars, kvVars,
                   accVars, opVars>>

\* the task gets the permit and runs check_root, unless the cell was set in
\* the meantime
CellAcquire(t) ==
    /\ stat_at[t].pc = "acquire"
    /\ may_acquire(root_checker, permit)
    /\ IF root_checker
       THEN /\ stat_at' = [stat_at EXCEPT ![t].pc = "query"]
            /\ UNCHANGED permit
       ELSE /\ stat_at' = [stat_at EXCEPT ![t].pc = "check_root"]
            /\ permit' = t
    /\ UNCHANGED <<inits, stats, whVars>>
    /\ UNCHANGED <<pagerVars, batchVars, metricsVars, tasksVars, kvVars,
                   accVars, opVars>>

\* check_root returned Ok(()): the cell is set and the permit given back
RootChecked(t) ==
    /\ root_checker' = TRUE
    /\ inits' = inits + 1
    /\ permit' = "free"
    /\ stat_at' = [stat_at EXCEPT ![t].pc = "query"]

\* check_root returned Err(e): `?` returns it from stat, the cell stays
\* empty and the permit is given back
RootCheckFailed(t, e) ==
    /\ UNCHANGED <<root_checker, inits>>
    /\ permit' = "free"
    /\ stat_at' = [stat_at EXCEPT ![t].pc = "done", ![t].res = e]

\* check_root: the GETFILESTATUS request for the root and its answer
CheckRootStatus(t, faulty) ==
    /\ stat_at[t].pc = "check_root"
    /\ \E s \in {Server(hdfs, Request("GET", "GETFILESTATUS", <<"/">>, NoneU,
                                       NoneU, "Empty"), faulty)} :
          CASE s.resp.status = 200 /\ s.resp.ty = "FILE" ->
                 RootCheckFailed(t, WhErr("BackendConfigInvalid"))
            [] s.resp.status = 200 /\ s.resp.ty # "FILE" -> RootChecked(t)
            [] s.resp.status = 404 ->
                 /\ stat_at' = [stat_at EXCEPT ![t].pc = "create_root"]
                 /\ UNCHANGED <<root_checker, inits, permit>>
            [] OTHER -> RootCheckFailed(t, parse_error(s.resp))
    /\ UNCHANGED <<hdfs, http, wh_last, stats>>
    /\ UNCHANGED <<pagerVars, batchVars, metricsVars, tasksVars, kvVars,
                   accVars, opVars>>

\* check_root: self.create("/", OpCreate::new(ObjectMode::DIR))
CheckRootCreate(t, fail) ==
    /\ stat_at[t].pc = "create_root"
    /\ \E o \in {create(Ctx(hdfs, << >>, fail), FALSE, <<"/">>, "DIR")} :
          /\ hdfs' = o.c.hdfs
          /\ IF o.res.st = "ok" THEN RootChecked(t)
             ELSE RootCheckFailed(t, o.res)
    /\ UNCHANGED <<http, wh_last, stats>>
    /\ UNCHANGED <<pagerVars, batchVars, metricsVars, tasksVars, kvVars,
                   accVars, opVars>>

\* stat: the GETFILESTATUS request for the path and what stat returns
StatQuery(t, fail) ==
    /\ stat_at[t].pc = "query"
    /\ \E o \in {stat_object(Ctx(hdfs, << >>, fail), stat_at[t].path)} :
          stat_at' = [stat_at EXCEPT ![t].pc = "done", ![t].res = o.res,
                           ![t].queried = TRUE]
    /\ UNCHANGED <<permit, inits, stats, whVars>>
    /\ UNCHANGED <<pagerVars, batchVars, metricsVars, tasksVars, kvVars,
                   accVars, opVars>>

StatInit ==
    /\ stat_at = [t \in Tasks |-> NoStat]
    /\ permit = "free"
    /\ inits = 0
    /\ stats = 0

StatNext ==
    \/ \E t \in Tasks, p \in WhPaths : StatCall(t, p)
    \/ \E t \in Tasks : CellGet(t)
    \/ \E t \in Tasks : CellAcquire(t)
    \/ \E t \in Tasks, faulty \in BOOLEAN : CheckRootStatus(t, faulty)
    \/ \E t \in Tasks, fail \in 0..1 : CheckRootCreate(t, fail)
    \/ \E t \in Tasks, fail \in 0..1 : StatQuery(t, fail)
    \/ \E i \in Inodes : \E e \in HdfsEntries(i) : HdfsChange(i, e)

PagerInit ==
    /\ db_tree = << >>
    /\ pager = "none"
    /\ current_page = 0
    /\ page_size = 0
    /\ result = None
    /\ exhausted = FALSE
    /\ drain = Unsteady

Init ==
    /\ PagerInit
    /\ BatchInit
    /\ MetricsInit
    /\ TasksInit
    /\ KvInit
    /\ WebhdfsInit
    /\ SledAccInit
    /\ OperatorInit
    /\ StatInit

PagerNext ==
    \/ \E size \in 0..MaxPageSize : DirPagerNew(size)
    \/ \E bad \in SUBSET (DOMAIN db_tree) : NextPage(bad)
    \/ \E bad \in SUBSET (DOMAIN db_tree) : NextPageAsync(bad)
    \/ \E k \in Keys, len \in ValueLens : TreeInsert(k, len)
    \/ \E k \in Keys : TreeRemove(k)

SpecPager == Init /\ [][PagerNext]_vars

\* the caller of a pager goes on calling next_page
SpecPagerDrain ==
    /\ Init
    /\ [][PagerNext]_vars
    /\ WF_vars(\E bad \in SUBSET (DOMAIN db_tree) : NextPage(bad))

SpecBatch == Init /\ [][BatchNext]_vars

SpecMetrics == Init /\ [][MetricsNext]_vars

SpecTasks == Init /\ [][TasksNext]_vars

\* the sled service: its adapter and its pager, one of the two at work
SledNext ==
    \/ PagerInit /\ KvNext
    \/ KvInit /\ PagerNext

SpecSled == Init /\ [][SledNext]_vars

SpecWebhdfs == Init /\ [][WebhdfsNext]_vars

\* the two accessors, one of the two at work
AccessorsNext ==
    \/ WebhdfsInit /\ SledAccNext
    \/ KvInit /\ SledAccInit /\ WebhdfsNext

SpecAccessors == Init /\ [][AccessorsNext]_vars

SpecOperator == Init /\ [][OperatorNext]_vars

SpecStat == Init /\ [][StatNext]_vars

(***************************************************************************)
(* Claims about DirPager                                                   *)
(***************************************************************************)

\* C1: next_page never returns Some(empty list): whatever the pager state and
\* the tree content, the latest result is None or a page with at least one
\* entry.
C1_NoEmptyPage == result.some => Len(result.page) >= 1

\* a second or later call returned a non-empty page, and some call before it
\* came back None for want of entries
C1_Witness ==
    /\ current_page >= 2
    /\ result.some
    /\ Len(result.page) >= 1
    /\ exhausted

\* C2: exhaustion is sticky: once next_page has returned None, every later
\* next_page call on the same pager returns None as well, whatever happened
\* to the tree in between.
C2_StickyExhaustion ==
    [][(exhausted /\ current_page' = current_page + 1) => ~result'.some]_vars

(***************************************************************************)
(* Claims about BatchOperator                                              *)
(***************************************************************************)
\* the delete calls made so far, oldest first
Deletes == SelectSeq(calls, LAMBDA c : c.op = "delete")

\* remove_all was called and its stat reported the mode m
StatSaid(m) ==
    /\ api = "remove_all"
    /\ Len(calls) >= 1
    /\ calls[1].ok
    /\ calls[1].rp = m

\* C3: remove_all on a path whose stat reports a non-directory makes exactly
\* one delete call, on that path, and no list call, and returns what the
\* delete returned.
C3_LeafRemoveAll ==
    StatSaid("FILE") =>
        /\ \A i \in 1..Len(calls) : calls[i].op # "list"
        /\ \A i \in 1..Len(Deletes) : Deletes[i].path = path
        /\ Len(Deletes) <= 1
        /\ pc = "done" =>
             /\ Len(Deletes) = 1
             /\ Len(calls) = 2
             /\ ret = (IF Deletes[1].ok THEN "ok" ELSE "err")

\* remove_all of a file has returned, once with the delete done and once
\* with the delete failed
C3_Witness ==
    /\ StatSaid("FILE")
    /\ pc = "done"
    /\ Len(Deletes) = 1
    /\ Deletes[1].ok
    /\ ret = "ok"
    /\ ~Exists(fs, path)

\* C4: remove_all on a directory deletes the entries of the bottom-up walk in
\* the order they are yielded; the first failing delete or failing walk item
\* ends it: the error is returned, no call follows it, and the deletes done
\* before are not undone.
C4_StopAtFirstFailure ==
    StatSaid("DIR") =>
        /\ Len(Deletes) <= Len(yielded)
        /\ Len(yielded) <= Len(Deletes) + 1
        /\ pc # "delete" => Len(yielded) = Len(Deletes)
        /\ \A i \in 1..Len(Deletes) : Deletes[i].path = yielded[i].path
        /\ \A i \in 2..Len(calls) :
             ~calls[i].ok => /\ i = Len(calls)
                             /\ pc = "done"
                             /\ ret = "err"
        /\ \A i \in 1..Len(Deletes) : Deletes[i].ok => ~Exists(fs, Deletes[i].path)
        /\ (pc = "done" /\ ret = "ok") => \A i \in 1..Len(calls) : calls[i].ok

\* remove_all of a directory has returned an error from its third or later
\* delete: the deletes before it were done, the failing one left its object
C4_Witness ==
    /\ StatSaid("DIR")
    /\ pc = "done"
    /\ ret = "err"
    /\ Len(Deletes) >= 3
    /\ ~Deletes[Len(Deletes)].ok
    /\ Deletes[1].ok
    /\ Exists(fs, Deletes[Len(Deletes)].path)
    /\ ~Exists(fs, Deletes[1].path)

\* the entries yielded before the i-th
YieldedBefore(i) == {yielded[j].path : j \in 1..(i - 1)}

\* C5: in a bottom-up walk (walk_bottom_up, and the walk of remove_all) every
\* entry beneath a directory is yielded strictly before that directory's own
\* entry: no entry is yielded after a directory it lies beneath, and when a
\* directory is yielded everything the namespace holds beneath it has been.
C5_BottomUpOrder ==
    api \in {"walk_bottom_up", "remove_all"} =>
        /\ \A i, j \in 1..Len(yielded) :
             Beneath(yielded[i].path, yielded[j].path) => j < i
        /\ \A i \in 1..Len(yielded) :
             \A q \in fs.files \cup fs.dirs :
                Beneath(yielded[i].path, q) => q \in YieldedBefore(i)

\* a bottom-up walk has ended after yielding a chain of three nested entries,
\* the deepest first
C5_Witness ==
    /\ api = "walk_bottom_up"
    /\ pc = "done"
    /\ ret = "ok"
    /\ \E i, j, k \in 1..Len(yielded) :
         /\ i < j
         /\ j < k
         /\ Beneath(yielded[j].path, yielded[i].path)
         /\ Beneath(yielded[k].path, yielded[j].path)

\* p is the walk's root or lies beneath it
InWalk(p) == p = path \/ Beneath(path, p)

\* C6: in a top-down walk (walk_top_down, and walk) every directory entry is
\* yielded strictly before any entry beneath it, and the files of a directory
\* are yielded before any of its subdirectories is descended into.
C6_TopDownOrder ==
    api \in {"walk", "walk_top_down"} =>
        /\ \A i, j \in 1..Len(yielded) :
             Beneath(yielded[i].path, yielded[j].path) => i < j
        /\ \A j \in 1..Len(yielded) :
             \A p \in Paths :
                (InWalk(p) /\ Beneath(p, yielded[j].path)) => p \in YieldedBefore(j)
        /\ \A j \in 1..Len(yielded) :
             \A f \in fs.files :
                ( /\ Len(f) > 0
                  /\ InWalk(Parent(f))
                  /\ Beneath(Parent(f), yielded[j].path)
                  /\ ~(yielded[j].mode = "FILE" /\ Parent(yielded[j].path) = Parent(f)) )
                => f \in YieldedBefore(j)

\* a top-down walk has ended after yielding a chain of three nested entries,
\* the outermost first, and a file of a directory before that directory's
\* subdirectory
C6_Witness ==
    /\ api \in {"walk", "walk_top_down"}
    /\ pc = "done"
    /\ ret = "ok"
    /\ \E i, j, k \in 1..Len(yielded) :
         /\ i < j
         /\ j < k
         /\ Beneath(yielded[i].path, yielded[j].path)
         /\ Beneath(yielded[j].path, yielded[k].path)

(***************************************************************************)
(* Claims about the metrics layer                                          *)
(***************************************************************************)

C8_BytesCounted ==
    [][IF rd.st = "alive" /\ rd'.st = "dropped"
       THEN bytes_total' = Inc(bytes_total, rd.op, rd.returned)
       ELSE bytes_total' = bytes_total]_vars

\* the reader of a read was dropped before the end of its stream, after it
\* had handed out bytes: the byte counter holds them
C8_Witness ==
    /\ rd.st = "dropped"
    /\ rd.op = "read"
    /\ rd.eof = FALSE
    /\ rd.failed = FALSE
    /\ rd.returned = MaxBytes
    /\ n_calls = 1
    /\ bytes_total["read"] = MaxBytes

\* C9: the flush of a counting reader runs exactly once on every way out:
\* a reader that stops being alive is dropped, with one flush that adds the
\* bytes counted so far to its byte counter; a live reader has not flushed;
\* once dropped nothing is added again; and a write path's reader is gone
\* when its call has returned or was cancelled.
C9_FlushOnce ==
    [][ /\ (rd.st = "alive" /\ rd'.st # "alive") =>
              /\ rd'.st = "dropped"
              /\ rd'.flushes = 1
              /\ bytes_total' = Inc(bytes_total, rd.op, rd.bytes)
        /\ (rd.st = "alive" /\ rd'.st = "alive") =>
              /\ rd'.flushes = 0
              /\ bytes_total' = bytes_total
        /\ rd.st # "alive" => bytes_total' = bytes_total
        /\ (call.st = "pending" /\ call'.st # "pending" /\ call.op \in WriteOps) =>
              rd'.st = "dropped" ]_vars

\* a write was cancelled after the inner call had read a byte from its
\* source: the reader was flushed once and the byte is in the counter
C9_Witness ==
    /\ call.op = "write"
    /\ call.st = "cancelled"
    /\ rd.st = "dropped"
    /\ rd.flushes = 1
    /\ rd.bytes = 1
    /\ n_calls = 1
    /\ bytes_total["write"] = 1

\* C10: each call through the metrics layer that returns, with success or
\* with an error, puts exactly one sample in the histogram of its operation
\* (for a successful read or blocking_read, when its reader is dropped), and
\* nothing else adds a sample.
C10_OneDurationPerCall ==
    [][LET returns == call.st = "pending" /\ call'.st \in {"ok", "err"}
           byReader == returns /\ call'.st = "ok" /\ call.op \in ReadOps
           readerDrop == rd.st = "alive" /\ rd'.st = "dropped" /\ rd.op \in ReadOps
       IN IF returns /\ ~byReader
          THEN requests_duration_seconds' = Inc(requests_duration_seconds, call.op, 1)
          ELSE IF readerDrop
          THEN requests_duration_seconds' = Inc(requests_duration_seconds, rd.op, 1)
          ELSE requests_duration_seconds' = requests_duration_seconds]_vars

\* C11: a successful read or blocking_read records no duration sample when
\* it returns nor while its reader is alive, and exactly one, in the
\* histogram of its operation, when the reader is dropped; the reader of a
\* write path records no sample when it is dropped.
C11_DurationAtDrop ==
    [][LET dropped == rd.st = "alive" /\ rd'.st = "dropped"
           returns == call.st = "pending" /\ call'.st \in {"ok", "err"}
       IN /\ (returns /\ call'.st = "ok" /\ call.op \in ReadOps) =>
                /\ rd'.st = "alive"
                /\ rd'.op = call.op
                /\ requests_duration_seconds' = requests_duration_seconds
          /\ (rd.st = "alive" /\ rd'.st = "alive" /\ rd.op \in ReadOps) =>
                requests_duration_seconds' = requests_duration_seconds
          /\ (dropped /\ rd.op \in ReadOps) =>
                requests_duration_seconds' =
                    Inc(requests_duration_seconds, rd.op, 1)
          /\ (dropped /\ rd.op \in WriteOps) =>
                /\ rd'.samples = 0
                /\ ~returns =>
                      requests_duration_seconds' = requests_duration_seconds
      ]_vars

\* a blocking_read returned Ok, its reader handed out bytes and was then
\* dropped: the one sample of the call is in the histogram
C11_Witness ==
    /\ call.op = "blocking_read"
    /\ call.st = "ok"
    /\ rd.st = "dropped"
    /\ rd.op = "blocking_read"
    /\ rd.returned = 1
    /\ n_calls = 1
    /\ requests_duration_seconds["blocking_read"] = 1

C13_ResultPreserved ==
    call.st \in {"ok", "err"} =>
        /\ call.out.ok = call.inner.ok
        /\ call.out.kind = call.inner.kind
        /\ call.out.am = call.inner.am
        /\ (call.st = "ok") = call.inner.ok
        /\ call.kind = call.inner.kind

\* a stat through the layer failed with the inner accessor's ObjectNotFound
C13_Witness ==
    /\ call.op = "stat"
    /\ call.st = "err"
    /\ call.inner = Result(FALSE, "ObjectNotFound", NoMetadata)
    /\ call.out.kind = "ObjectNotFound"

\* the bytes the readers of the tasks in ts handed out, added up
RECURSIVE BytesTransferred(_)
BytesTransferred(ts) ==
    IF ts = {} THEN 0
    ELSE LET t == CHOOSE x \in ts : TRUE
         IN tasks[t].rd.returned + BytesTransferred(ts \ {t})

\* every task has made its call, the call is over and its reader is gone
AllTasksDone ==
    \A t \in Tasks : /\ tasks[t].call.st \in {"ok", "err", "cancelled"}
                      /\ tasks[t].rd.st # "alive"

\* C15: when several calls run at the same time through one metrics layer
\* no counter update is lost: once every call is over and every reader is
\* dropped, under every interleaving, the request counter of each operation
\* is the number of calls made of it and each byte counter is the sum of the
\* bytes the readers of those calls handed out.
C15_NoLostUpdate ==
    AllTasksDone =>
        /\ \A o \in Ops :
              requests_total[o] =
                  Cardinality({t \in Tasks : tasks[t].call.op = o})
        /\ \A o \in ReadOps \cup WriteOps :
              bytes_total[o] =
                  BytesTransferred({t \in Tasks : tasks[t].rd.op = o})

\* two reads ran through the layer, each reader handed out a byte and was
\* dropped: 2 requests and 2 bytes are counted
C15_Witness ==
    /\ \A t \in Tasks : /\ tasks[t].call.op = "read"
                         /\ tasks[t].call.st = "ok"
                         /\ tasks[t].rd.st = "dropped"
                         /\ tasks[t].rd.returned = 1
    /\ requests_total["read"] = 2
    /\ bytes_total["read"] = 2

(***************************************************************************)
(* Claims about the sled adapter                                           *)
(***************************************************************************)
\* the key-value pairs of the database: (tree, key, value)
Contents(d) ==
    UNION {{<<t, k, d[t][k]>> : k \in DOMAIN d[t]} : t \in DOMAIN d}

\* a call of the adapter happens in this step
KvStep == kv_calls' = kv_calls + 1

\* C16: set overwrites and addresses the same (namespace, leaf) as get: after
\* any sequence of set and delete calls a get(p) that succeeds returns the
\* value of the latest set(p, v) that no delete(p) followed, None if there is
\* none; and a set or delete on another path q leaves what get(p) returns
\* as it was.
C16_SetGetDelete ==
    [][KvStep =>
          /\ (kv_last'.op = "get" /\ kv_last'.res.ok) =>
                kv_last'.res.value = kv_model[kv_last'.path]
          /\ kv_last'.op \in {"set", "delete"} =>
                \A q \in KvPaths \ {kv_last'.path} :
                    blocking_get(db', q, "none").res
                        = blocking_get(db, q, "none").res
      ]_vars

\* /dir1/file.txt was set to v1, then to v2, and the get returns v2
C16_Witness ==
    /\ kv_calls = 3
    /\ kv_last.op = "get"
    /\ kv_last.path = <<"/", "dir1", "/", "file.txt">>
    /\ kv_last.res = KvOk("v2")
    /\ Contents(db) = {<<(<<"/", "dir1">>), (<<"file.txt">>), "v2">>}

ExpectedSplit(p) ==
    CASE p = <<"/", "file.txt">> ->
           [namespace |-> <<"/">>, leaf |-> <<"file.txt">>]
      [] p = <<"/", "dir1", "/", "file.txt">> ->
           [namespace |-> <<"/", "dir1">>, leaf |-> <<"file.txt">>]
      [] p = <<"/", "dir1", "/", "dir2">> ->
           [namespace |-> <<"/", "dir1">>, leaf |-> <<"dir2">>]
      [] p = <<"/", "dir1", "/", "dir2", "/", "file.txt">> ->
           [namespace |-> <<"/", "dir1", "/", "dir2">>, leaf |-> <<"file.txt">>]

\* C18: the adapter splits every path into (parent namespace, leaf name):
\* /dir1/dir2/file.txt into namespace /dir1/dir2 and leaf file.txt, the
\* root-level /file.txt into the root namespace and leaf file.txt; get, set
\* and delete all open that namespace and use that leaf as the key.
C18_PathSplit ==
    kv_calls > 0 =>
        /\ kv_last.tree = ExpectedSplit(kv_last.path).namespace
        /\ kv_last.key = ExpectedSplit(kv_last.path).leaf
        /\ (kv_last.op = "set" /\ kv_last.res.ok) =>
              <<ExpectedSplit(kv_last.path).namespace,
                ExpectedSplit(kv_last.path).leaf,
                kv_last.value>> \in Contents(db)
        /\ (kv_last.op = "delete" /\ kv_last.res.ok) =>
              \A v \in KvValues :
                  <<ExpectedSplit(kv_last.path).namespace,
                    ExpectedSplit(kv_last.path).leaf, v>> \notin Contents(db)

\* /dir1/dir2/file.txt was set: the value is in the tree /dir1/dir2 under
\* the key file.txt
C18_Witness ==
    /\ kv_last.op = "set"
    /\ kv_last.path = <<"/", "dir1", "/", "dir2", "/", "file.txt">>
    /\ kv_last.res.ok
    /\ kv_last.tree = <<"/", "dir1", "/", "dir2">>
    /\ kv_last.key = <<"file.txt">>
    /\ Contents(db) =
         {<<(<<"/", "dir1", "/", "dir2">>), (<<"file.txt">>), kv_last.value>>}

\* what the blocking form of the call made in this step returns for the
\* store and the input of the step
BlockingOutcome ==
    CASE kv_last'.op = "get" ->
           blocking_get(db, kv_last'.path, kv_last'.fault)
      [] kv_last'.op = "set" ->
           blocking_set(db, kv_last'.path, kv_last'.value, kv_last'.fault)
      [] kv_last'.op = "delete" ->
           blocking_delete(db, kv_last'.path, kv_last'.fault)

\* C19: in the sled service the async and the blocking forms are the same:
\* for every store and every input an async get, set or delete returns what
\* blocking_get, blocking_set or blocking_delete returns and leaves the
\* store it leaves; and a next_page of DirPager, async or blocking, returns
\* the page the blocking next_page computes and moves on by one page.
C19_AsyncIsBlocking ==
    [][/\ (KvStep /\ kv_last'.form = "async") =>
             /\ kv_last'.res = BlockingOutcome.res
             /\ db' = BlockingOutcome.db
       /\ (pager = "live" /\ <<current_page, result>>' # <<current_page, result>>) =>
             /\ current_page' = current_page + 1
             /\ db_tree' = db_tree
             /\ \E bad \in SUBSET (DOMAIN db_tree) :
                   result' = PageResult(Objects(db_tree, current_page,
                                                page_size, bad))
      ]_vars

\* an async delete removed the value that was set before it
C19_Witness ==
    /\ kv_calls = 2
    /\ kv_last.form = "async"
    /\ kv_last.op = "delete"
    /\ kv_last.res = KvOk("unit")
    /\ kv_model[kv_last.path] = "none"
    /\ get_parent(kv_last.path) \in DOMAIN db
    /\ Contents(db) = {}

\* the last webhdfs call was a read of a range with a size and no offset
SizeOnlyRead ==
    /\ wh_last.op = "read"
    /\ wh_last.range.offset = NoneU
    /\ wh_last.range.size # NoneU

\* the numbers, in the log of the call, of the GETFILESTATUS exchanges for
\* the path read that answered with the object's length
StatExchanges ==
    {i \in DOMAIN http : /\ http[i].req.op = "GETFILESTATUS"
                         /\ http[i].req.path = wh_last.path
                         /\ http[i].resp.status = 200}

\* the numbers of the OPEN requests in the log of the call
OpenExchanges == {j \in DOMAIN http : http[j].req.op = "OPEN"}

Declared(am, op) == NeededCapabilities(op) \subseteq am.capabilities

\* a call of the sled accessor happens in this step
SledAccStep == sled_last' # sled_last \/ kv_calls' # kv_calls

\* C14: an operation whose capability the accessor does not declare (sled
\* declares Read, Write, Blocking; webhdfs declares Read, Write, List)
\* returns Unsupported, and the call makes no call of the sled adapter, which
\* is left as it was, and sends no HTTP request.
C14_Unsupported ==
    /\ [](/\ wh_last.op \in Ops
           /\ ~Declared(WebhdfsMetadata, wh_last.op)
           => /\ wh_last.res = WhErr("Unsupported")
              /\ http = << >>)
    /\ [][(/\ SledAccStep
            /\ ~Declared(SledMetadata, sled_last'.op))
           => /\ sled_last'.res = AccErr("Unsupported")
              /\ UNCHANGED kvVars
       ]_vars

\* a write of the sled accessor set a value, then a list, which needs the
\* List capability, returned Unsupported and the store still holds the value
C14_Witness ==
    /\ sled_last.op = "list"
    /\ sled_last.res = AccErr("Unsupported")
    /\ kv_calls = 1
    /\ kv_last.op = "set"
    /\ kv_last.res.ok
    /\ Contents(db) # {}

\* a call of the webhdfs backend happens in this step
WhStep == <<root_checker, http, wh_last>>' # <<root_checker, http, wh_last>>

\* the server failed a request of the latest call
ServerFailed(log) == \E i \in DOMAIN log : log[i].resp.status = 500

\* the answers with 404 to the requests of the latest call about its path
NotFoundExchanges ==
    {i \in DOMAIN http : /\ http[i].req.op \in {"GETFILESTATUS", "OPEN"}
                         /\ http[i].req.path = wh_last.path
                         /\ http[i].resp.status = 404}

Reverse(s) == [i \in 1..Len(s) |-> s[Len(s) + 1 - i]]

\* the number of type-erase layers of a chain
TypeErasures(chain) ==
    Cardinality({i \in DOMAIN chain : chain[i] = "TypeEraseLayer"})

\* OperatorBuilder::finish happens in this step
FinishStep == ob # << >> /\ ob' = << >>

\* C22: after layer(L1) ... layer(Ln) and finish() the chain is, from the
\* outermost to the innermost: one type-erase layer, Ln, ..., L1,
\* CompleteReaderLayer, ErrorContextLayer, the backend; the type-erase
\* layer is the outermost and the only one.
C22_ChainOrder ==
    [][FinishStep =>
          /\ Len(arcs') = Len(arcs) + 1
          /\ arcs'[Len(arcs')] =
                <<"TypeEraseLayer">> \o Reverse(ob_layers)
                    \o <<"CompleteReaderLayer", "ErrorContextLayer">>
                    \o Backend
          /\ TypeErasures(arcs'[Len(arcs')]) = 1
      ]_vars

\* layer(LoggingLayer).layer(MetricsLayer).finish() was called
C22_Witness ==
    /\ ob = << >>
    /\ Len(arcs) >= 1
    /\ arcs[1] = <<"TypeEraseLayer", "MetricsLayer", "LoggingLayer",
                   "CompleteReaderLayer", "ErrorContextLayer", "backend">>

\* Operator::layer happens in this step: no value is added, and a value or
\* a chain changes
OperatorLayerStep ==
    /\ Len(handles') = Len(handles)
    /\ handles' # handles \/ arcs' # arcs

\* C23: Operator::layer(L) on an Operator gives an Operator whose chain is
\* L, under a type-erase layer, wrapped over the chain it had; no chain
\* built before is modified, and every other Operator, Object and
\* BatchOperator keeps the chain it dispatched through.
C23_ChainImmutable ==
    [][OperatorLayerStep =>
          \E h \in DOMAIN handles, l \in UserLayers :
              /\ handles[h].kind = "Operator"
              /\ handles'[h].kind = "Operator"
              /\ inner(arcs', handles', h) =
                    Layered("TypeEraseLayer",
                            Layered(l, inner(arcs, handles, h)))
              /\ \A a \in DOMAIN arcs : a \in DOMAIN arcs' /\ arcs'[a] = arcs[a]
              /\ \A g \in DOMAIN handles \ {h} :
                    /\ handles'[g].kind = handles[g].kind
                    /\ inner(arcs', handles', g) = inner(arcs, handles, g)
      ]_vars

\* an Object was made of the Operator, then the Operator was layered with
\* MetricsLayer: the Object still holds the chain without MetricsLayer
C23_Witness ==
    /\ Len(handles) = 2
    /\ handles[1].kind = "Operator"
    /\ handles[2].kind = "Object"
    /\ inner(arcs, handles, 2) =
          <<"TypeEraseLayer", "CompleteReaderLayer", "ErrorContextLayer",
            "backend">>
    /\ inner(arcs, handles, 1) =
          <<"TypeEraseLayer", "MetricsLayer">> \o inner(arcs, handles, 2)

\* the errors the latest check met: the list call's, or the one the stream
\* yielded
ErrorsMet ==
    {check_last.listed, check_last.first} \cap CheckErrors

\* C25: Operator::check returns the error it met, the list call's or the
\* one the listing yielded, and Ok only when it met no error.
C25_CheckReturnsError ==
    check_last.ret # "none" =>
        /\ ErrorsMet # {} => check_last.ret \in ErrorsMet
        /\ check_last.ret = "ok" => ErrorsMet = {}

(***************************************************************************)
(* Claims about building and writing with the webhdfs backend              *)
(***************************************************************************)
\* the requests of the log about the root directory
RootExchanges(log) ==
    {i \in DOMAIN log : log[i].req.path = <<"/">>}

\* C24: WebhdfsBuilder::build checks the root directory: it queries the
\* root, a root that does not exist is a directory after the build, and
\* with the root path occupied by a file the build returns a failure.
C24_BuildChecksRoot ==
    [][(WhStep /\ wh_last'.op = "build") =>
          /\ RootExchanges(http') # {}
          /\ hdfs[<< >>] = HdfsNone => hdfs'[<< >>] = HdfsDir
          /\ hdfs[<< >>].ty = "FILE" => wh_last'.res.st = "err"
      ]_vars

\* C29: for a read of a size S and no offset, whatever the object's length
\* T, S > T included, the subtraction does not overflow and the offset of
\* the OPEN request lies in 0..T.
C29_OffsetInRange ==
    SizeOnlyRead =>
        /\ wh_last.res # WhPanic
        /\ \A i \in StatExchanges, j \in OpenExchanges :
              /\ http[j].req.offset # NoneU
              /\ http[j].req.offset[1] \in 0..http[i].resp.len

\* the numbers of the requests of the log that put the source stream
SourcePuts ==
    {j \in DOMAIN http : /\ http[j].req.method = "PUT"
                         /\ http[j].req.op = "DATA_PUT"
                         /\ http[j].req.body = "Reader"
                         /\ \E i \in 1..(j - 1) :
                               /\ http[i].req.op = "CREATE"
                               /\ http[i].req.path = wh_last.path
                               /\ http[i].resp.location}

\* C30: a write that returns Ok, on any path, those that end in '/'
\* included, has sent its source stream as the body of a PUT to the
\* location that a CREATE request before it was answered with.
C30_WriteSendsSource ==
    (wh_last.op = "write" /\ wh_last.res.st = "ok") => SourcePuts # {}

(***************************************************************************)
(* Claims about a drain of DirPager                                        *)
(***************************************************************************)
\* the number of times the key was yielded
TimesYielded(k) == Cardinality({i \in DOMAIN drain.keys : drain.keys[i] = k})

\* C26: a drain of a tree that is not modified, with a page size of 1 or
\* more, yields no key twice, in one page or in two, and once next_page
\* has returned None every key of the tree was yielded exactly once.
C26_EveryKeyOnce ==
    (drain.steady /\ page_size >= 1) =>
        /\ \A k \in Keys : TimesYielded(k) <= 1
        /\ exhausted => \A k \in DOMAIN db_tree : TimesYielded(k) = 1

Checking == {t \in Tasks : stat_at[t].pc \in {"check_root", "create_root"}}

\* C28: on one WebhdfsBackend, with stat called from several tasks at once,
\* the root check succeeds at most once and is run by one task at a time; a
\* stat sends the GETFILESTATUS request for its path only after a root check
\* has succeeded; a stat whose root check fails returns that error without
\* querying its path, and leaves the cell empty and its permit free, so that
\* the next stat runs the check again.
C28_RootCheckedOnce ==
    /\ [](inits <= 1 /\ Cardinality(Checking) <= 1)
    /\ [][\A t \in Tasks :
            /\ (stat_at'[t].queried /\ ~stat_at[t].queried)
                  => (root_checker /\ inits = 1)
            /\ (t \in Checking /\ stat_at'[t].pc = "done")
                  => /\ stat_at'[t].res.st = "err"
                     /\ ~stat_at'[t].queried
                     /\ ~root_checker'
                     /\ permit' = "free"]_vars

\* one stat returned the error of its root check without querying its path,
\* while another task waited for the permit; a later check succeeded and a
\* stat then queried its path
C28_Witness ==
    \E t, u \in Tasks :
        /\ t # u
        /\ stat_at[t].pc = "done"
        /\ stat_at[t].res.st = "err"
        /\ ~stat_at[t].queried
        /\ stat_at[u].pc = "done"
        /\ stat_at[u].res.st = "ok"
        /\ stat_at[u].queried
        /\ inits = 1
====
